---- MODULE Spec2Model ----
(***************************************************************************)
(* Model of the static filtering parser of uBlock Origin                   *)
(* (src/js/static-filtering-parser.js).                                    *)
(*                                                                         *)
(* A line is a sequence of characters (one-character strings).  The        *)
(* parser object is the record `parser`; every method is an operator from  *)
(* parser records to parser records, and every public entry point is one   *)
(* action.  Character-class masks and flavor masks are bit vectors in the  *)
(* source; here a mask is the set of the names of its bits, so that `|` is *)
(* \cup, `&` is \cap and `& ~m` is \ m.                                    *)
(*                                                                         *)
(* The slice array is a flat array of integers in the source, three cells  *)
(* per slice.  Here it is a sequence of records [bits, o, l]; a slot index *)
(* keeps the source's value (a multiple of 3), and slot s is element       *)
(* s \div 3 + 1 of the sequence.                                           *)
(***************************************************************************)
EXTENDS Integers, Sequences, FiniteSets, TLC

VARIABLES
    parser,     \* the Parser object
    input,      \* the line the caller hands to analyze()
    lines,      \* number of lines the caller has started so far
    calls,      \* number of analyze() calls on the current line
    seen        \* the observable state after each analyze() of the current line

vars == <<parser, input, lines, calls, seen>>

(***************************************************************************)
(* Bounds of the model                                                     *)
(***************************************************************************)
MaxLen == 4         \* length of the lines over Alphabet
MaxExtLen == 5      \* length of the lines over ExtAlphabet
MaxCalls == 2       \* analyze() calls on one line

(***************************************************************************)
(* Character classes                                                       *)
(***************************************************************************)
BITSpace == {"Space"}
BITGlyph == {"Glyph"}
BITExclamation == {"Exclamation"}
BITHash == {"Hash"}
BITDollar == {"Dollar"}
BITPercent == {"Percent"}
BITParen == {"Paren"}
BITAsterisk == {"Asterisk"}
BITPlus == {"Plus"}
BITComma == {"Comma"}
BITDash == {"Dash"}
BITPeriod == {"Period"}
BITSlash == {"Slash"}
BITNum == {"Num"}
BITEqual == {"Equal"}
BITQuestion == {"Question"}
BITAt == {"At"}
BITAlpha == {"Alpha"}
BITUppercase == {"Uppercase"}
BITSquareBracket == {"SquareBracket"}
BITBackslash == {"Backslash"}
BITCaret == {"Caret"}
BITUnderscore == {"Underscore"}
BITBrace == {"Brace"}
BITPipe == {"Pipe"}
BITTilde == {"Tilde"}
BITOpening == {"Opening"}
BITClosing == {"Closing"}
BITUnicode == {"Unicode"}
BITIgnore == {"Ignore"}
BITError == {"Error"}

BITAlphaNum == BITNum \cup BITAlpha
BITRegexWord == BITAlphaNum \cup BITUnderscore
BITHostname == BITNum \cup BITAlpha \cup BITUppercase \cup BITDash \cup BITPeriod
                 \cup BITUnderscore \cup BITUnicode
BITPatternToken == BITNum \cup BITAlpha \cup BITPercent
BITLineComment == BITExclamation \cup BITHash \cup BITSquareBracket

hasBits(v, bits) == v \cap bits # {}
hasNoBits(v, bits) == v \cap bits = {}

Digits == {"0", "1", "2", "3", "4", "5", "6", "7", "8", "9"}
LowerCase == {"a", "b", "c", "d", "e", "f", "g", "h", "i", "j", "k", "l", "m",
              "n", "o", "p", "q", "r", "s", "t", "u", "v", "w", "x", "y", "z"}
UpperCase == {"A", "B", "C", "D", "E", "F", "G", "H", "I", "J", "K", "L", "M",
              "N", "O", "P", "Q", "R", "S", "T", "U", "V", "W", "X", "Y", "Z"}
WhiteSpace == {" ", "\t", "\n", "\r"}
\* The glyphs of the table; the grave accent is written as its name.
Glyphs == {"\"", "&", "'", ":", ";", "<", ">", "U+0060"}
\* A character outside ASCII (code >= 0x80) is written as a name of several letters.
NonAscii == {"U+00E9"}

\* The table charDescBits, and the unicodeBits of slice() for codes >= 0x80.
charDescBits(c) ==
    CASE c \in WhiteSpace -> BITSpace
      [] c = "!" -> BITExclamation
      [] c \in Glyphs -> BITGlyph
      [] c = "#" -> BITHash
      [] c = "$" -> BITDollar
      [] c = "%" -> BITPercent
      [] c = "(" -> BITParen \cup BITOpening
      [] c = ")" -> BITParen \cup BITClosing
      [] c = "*" -> BITAsterisk
      [] c = "+" -> BITPlus
      [] c = "," -> BITComma
      [] c = "-" -> BITDash
      [] c = "." -> BITPeriod
      [] c = "/" -> BITSlash
      [] c \in Digits -> BITNum
      [] c = "=" -> BITEqual
      [] c = "?" -> BITQuestion
      [] c = "@" -> BITAt
      [] c \in UpperCase -> BITAlpha \cup BITUppercase
      [] c = "[" -> BITSquareBracket \cup BITOpening
      [] c = "\\" -> BITBackslash
      [] c = "]" -> BITSquareBracket \cup BITClosing
      [] c = "^" -> BITCaret
      [] c = "_" -> BITUnderscore
      [] c \in LowerCase -> BITAlpha
      [] c = "{" -> BITBrace \cup BITOpening
      [] c = "|" -> BITPipe
      [] c = "}" -> BITBrace \cup BITClosing
      [] c = "~" -> BITTilde
      [] c \in NonAscii -> BITUnicode \cup BITAlpha
      [] OTHER -> {}

(***************************************************************************)
(* Categories and flavors                                                  *)
(***************************************************************************)
CATNone == "None"
CATStaticExtFilter == "StaticExtFilter"
CATStaticNetFilter == "StaticNetFilter"
CATComment == "Comment"

BITFlavorException == {"Exception"}
BITFlavorNetRegex == {"NetRegex"}
BITFlavorNetLeftURLAnchor == {"NetLeftURLAnchor"}
BITFlavorNetRightURLAnchor == {"NetRightURLAnchor"}
BITFlavorNetLeftHnAnchor == {"NetLeftHnAnchor"}
BITFlavorNetRightHnAnchor == {"NetRightHnAnchor"}
BITFlavorNetSpaceInPattern == {"NetSpaceInPattern"}
BITFlavorExtStyle == {"ExtStyle"}
BITFlavorExtStrong == {"ExtStrong"}
BITFlavorExtCosmetic == {"ExtCosmetic"}
BITFlavorExtScriptlet == {"ExtScriptlet"}
BITFlavorExtHTML == {"ExtHTML"}
BITFlavorIgnore == {"FlavorIgnore"}
BITFlavorUnsupported == {"Unsupported"}
BITFlavorError == {"FlavorError"}
BITFlavorNetLeftAnchor == BITFlavorNetLeftURLAnchor \cup BITFlavorNetLeftHnAnchor
BITFlavorNetRightAnchor == BITFlavorNetRightURLAnchor \cup BITFlavorNetRightHnAnchor

(***************************************************************************)
(* Spans and slices                                                        *)
(***************************************************************************)
SpanNames == {"leftSpaceSpan", "exceptionSpan", "patternLeftAnchorSpan", "patternSpan",
              "patternRightAnchorSpan", "optionsAnchorSpan", "optionsSpan",
              "commentSpan", "rightSpaceSpan", "eolSpan"}

\* Span.reset(): i = l = 0.
Span == [i |-> 0, l |-> 0]

\* The slice at slot s of the slice array sl (s, s+1, s+2 in the source).
Slot(sl, s) == sl[(s \div 3) + 1]
BitsAt(p, s) == Slot(p.slices, s).bits
LenAt(p, s) == Slot(p.slices, s).l
OrgAt(p, s) == Slot(p.slices, s).o

\* Assignment to one field of one span.
SetI(p, name, v) == [p EXCEPT !.spans[name].i = v]
SetL(p, name, v) == [p EXCEPT !.spans[name].l = v]
SetSpan(p, name, vi, vl) == [p EXCEPT !.spans[name] = [i |-> vi, l |-> vl]]

\* slices[s] |= bits
OrBits(p, s, bits) ==
    [p EXCEPT !.slices[(s \div 3) + 1].bits = @ \cup bits]

\* String.prototype.slice(beg, end) for 0 <= beg and end <= length.
jsSlice(s, beg, end) == SubSeq(s, beg + 1, end)

\* The part of the slice array in use: the slices before sliceWritePtr.
Used(p) == SubSeq(p.slices, 1, p.sliceWritePtr \div 3)

(***************************************************************************)
(* Parser: construction, reset(), slice(), splitSlot()                     *)
(***************************************************************************)
NoSpans == [n \in SpanNames |-> Span]

NoResult == [exception |-> FALSE, raw |-> <<>>, compiled |-> [defined |-> TRUE, text |-> <<>>],
             pseudoclass |-> FALSE]

\* reset() that forgets to rewind the write pointer of the slice array.
resetKeepsWritePtr(p) ==
    [p EXCEPT !.category = CATNone, !.allBits = {}, !.patternBits = {},
              !.optionsBits = {}, !.flavorBits = {}, !.spans = NoSpans,
              !.pattern = <<>>]

reset(p) ==
    [p EXCEPT !.sliceWritePtr = 0, !.category = CATNone, !.allBits = {},
              !.patternBits = {}, !.optionsBits = {}, !.flavorBits = {},
              !.spans = NoSpans, !.pattern = <<>>]

\* Number.MAX_SAFE_INTEGER is 2^53 - 1.  The parser only compares it with the
\* distance of two positions of one line, and the greatest integer of the
\* model stands for it.
MAX_SAFE_INTEGER == 2147483647

\* new PatternTokenIterator(parser).  The field `value` is undefined or an
\* object { token, pos }.
NoValue == [defined |-> FALSE, token |-> <<>>, pos |-> 0]

PatternTokenIterator == [l |-> 0, r |-> 0, i |-> 0, value |-> NoValue, done |-> TRUE]

\* The identifier of an option: the low byte of its descriptor.
OPTTokenInvalid == 0
OPTToken1p == 1
OPTToken3p == 2
OPTTokenAll == 3
OPTTokenBadfilter == 4
OPTTokenCname == 5
OPTTokenCsp == 6
OPTTokenCss == 7
OPTTokenDenyAllow == 8
OPTTokenDoc == 9
OPTTokenDomain == 10
OPTTokenEhide == 11
OPTTokenEmpty == 12
OPTTokenFont == 13
OPTTokenFrame == 14
OPTTokenGenericblock == 15
OPTTokenGhide == 16
OPTTokenImage == 17
OPTTokenImportant == 18
OPTTokenInlineFont == 19
OPTTokenInlineScript == 20
OPTTokenMedia == 21
OPTTokenMp4 == 22
OPTTokenObject == 23
OPTTokenOther == 24
OPTTokenPing == 25
OPTTokenPopunder == 26
OPTTokenPopup == 27
OPTTokenRedirect == 28
OPTTokenRedirectRule == 29
OPTTokenScript == 30
OPTTokenShide == 31
OPTTokenXhr == 32
OPTTokenWebrtc == 33
OPTTokenWebsocket == 34

\* The flags of a descriptor: a set of flag names stands for the bits above
\* the identifier.
OPTCanNegate == {"CanNegate"}
OPTBlockOnly == {"BlockOnly"}
OPTAllowOnly == {"AllowOnly"}
OPTMustAssign == {"MustAssign"}
OPTAllowMayAssign == {"AllowMayAssign"}
OPTDomainList == {"DomainList"}
OPTType == {"Type"}
OPTNetworkType == {"NetworkType"}
OPTRedirectType == {"RedirectType"}
OPTNotSupported == {"NotSupported"}

\* A descriptor: `token | flags` of the source.
Descriptor(id, flags) == [id |-> id, flags |-> flags]

\* The descriptor OPTTokenInvalid: the number 0, which has no flag.
InvalidOption == Descriptor(OPTTokenInvalid, {})

netOptionTokens ==
    <<"1", "p">> :> Descriptor(OPTToken1p, OPTCanNegate) @@
    <<"f", "i", "r", "s", "t", "-", "p", "a", "r", "t", "y">> :> Descriptor(OPTToken1p, OPTCanNegate) @@
    <<"3", "p">> :> Descriptor(OPTToken3p, OPTCanNegate) @@
    <<"t", "h", "i", "r", "d", "-", "p", "a", "r", "t", "y">> :> Descriptor(OPTToken3p, OPTCanNegate) @@
    <<"a", "l", "l">> :> Descriptor(OPTTokenAll, OPTType \cup OPTNetworkType) @@
    <<"b", "a", "d", "f", "i", "l", "t", "e", "r">> :> Descriptor(OPTTokenBadfilter, {}) @@
    <<"c", "n", "a", "m", "e">> :> Descriptor(OPTTokenCname, OPTAllowOnly \cup OPTType) @@
    <<"c", "s", "p">> :> Descriptor(OPTTokenCsp, OPTMustAssign \cup OPTAllowMayAssign) @@
    <<"c", "s", "s">> :> Descriptor(OPTTokenCss, OPTCanNegate \cup OPTType \cup OPTNetworkType) @@
    <<"s", "t", "y", "l", "e", "s", "h", "e", "e", "t">> :> Descriptor(OPTTokenCss, OPTCanNegate \cup OPTType \cup OPTNetworkType) @@
    <<"d", "e", "n", "y", "a", "l", "l", "o", "w">> :> Descriptor(OPTTokenDenyAllow, OPTMustAssign \cup OPTDomainList) @@
    <<"d", "o", "c">> :> Descriptor(OPTTokenDoc, OPTType \cup OPTNetworkType) @@
    <<"d", "o", "c", "u", "m", "e", "n", "t">> :> Descriptor(OPTTokenDoc, OPTType \cup OPTNetworkType) @@
    <<"d", "o", "m", "a", "i", "n">> :> Descriptor(OPTTokenDomain, OPTMustAssign \cup OPTDomainList) @@
    <<"e", "h", "i", "d", "e">> :> Descriptor(OPTTokenEhide, OPTType) @@
    <<"e", "l", "e", "m", "h", "i", "d", "e">> :> Descriptor(OPTTokenEhide, OPTType) @@
    <<"e", "m", "p", "t", "y">> :> Descriptor(OPTTokenEmpty, OPTBlockOnly \cup OPTType \cup OPTNetworkType \cup OPTRedirectType) @@
    <<"f", "r", "a", "m", "e">> :> Descriptor(OPTTokenFrame, OPTCanNegate \cup OPTType \cup OPTNetworkType) @@
    <<"s", "u", "b", "d", "o", "c", "u", "m", "e", "n", "t">> :> Descriptor(OPTTokenFrame, OPTCanNegate \cup OPTType \cup OPTNetworkType) @@
    <<"f", "o", "n", "t">> :> Descriptor(OPTTokenFont, OPTCanNegate \cup OPTType \cup OPTNetworkType) @@
    <<"g", "e", "n", "e", "r", "i", "c", "b", "l", "o", "c", "k">> :> Descriptor(OPTTokenGenericblock, OPTNotSupported) @@
    <<"g", "h", "i", "d", "e">> :> Descriptor(OPTTokenGhide, OPTType) @@
    <<"g", "e", "n", "e", "r", "i", "c", "h", "i", "d", "e">> :> Descriptor(OPTTokenGhide, OPTType) @@
    <<"i", "m", "a", "g", "e">> :> Descriptor(OPTTokenImage, OPTCanNegate \cup OPTType \cup OPTNetworkType) @@
    <<"i", "m", "p", "o", "r", "t", "a", "n", "t">> :> Descriptor(OPTTokenImportant, OPTBlockOnly) @@
    <<"i", "n", "l", "i", "n", "e", "-", "f", "o", "n", "t">> :> Descriptor(OPTTokenInlineFont, OPTType) @@
    <<"i", "n", "l", "i", "n", "e", "-", "s", "c", "r", "i", "p", "t">> :> Descriptor(OPTTokenInlineScript, OPTType) @@
    <<"m", "e", "d", "i", "a">> :> Descriptor(OPTTokenMedia, OPTCanNegate \cup OPTType \cup OPTNetworkType) @@
    <<"m", "p", "4">> :> Descriptor(OPTTokenMp4, OPTType \cup OPTNetworkType \cup OPTBlockOnly \cup OPTRedirectType) @@
    <<"o", "b", "j", "e", "c", "t">> :> Descriptor(OPTTokenObject, OPTCanNegate \cup OPTType \cup OPTNetworkType) @@
    <<"o", "b", "j", "e", "c", "t", "-", "s", "u", "b", "r", "e", "q", "u", "e", "s", "t">> :> Descriptor(OPTTokenObject, OPTCanNegate \cup OPTType \cup OPTNetworkType) @@
    <<"o", "t", "h", "e", "r">> :> Descriptor(OPTTokenOther, OPTCanNegate \cup OPTType \cup OPTNetworkType) @@
    <<"p", "i", "n", "g">> :> Descriptor(OPTTokenPing, OPTCanNegate \cup OPTType \cup OPTNetworkType) @@
    <<"b", "e", "a", "c", "o", "n">> :> Descriptor(OPTTokenPing, OPTCanNegate \cup OPTType \cup OPTNetworkType) @@
    <<"p", "o", "p", "u", "n", "d", "e", "r">> :> Descriptor(OPTTokenPopunder, OPTType) @@
    <<"p", "o", "p", "u", "p">> :> Descriptor(OPTTokenPopup, OPTType) @@
    <<"r", "e", "d", "i", "r", "e", "c", "t">> :> Descriptor(OPTTokenRedirect, OPTMustAssign \cup OPTBlockOnly \cup OPTRedirectType) @@
    <<"r", "e", "d", "i", "r", "e", "c", "t", "-", "r", "u", "l", "e">> :> Descriptor(OPTTokenRedirectRule, OPTMustAssign \cup OPTBlockOnly \cup OPTRedirectType) @@
    <<"s", "c", "r", "i", "p", "t">> :> Descriptor(OPTTokenScript, OPTCanNegate \cup OPTType \cup OPTNetworkType) @@
    <<"s", "h", "i", "d", "e">> :> Descriptor(OPTTokenShide, OPTType) @@
    <<"s", "p", "e", "c", "i", "f", "i", "c", "h", "i", "d", "e">> :> Descriptor(OPTTokenShide, OPTType) @@
    <<"x", "h", "r">> :> Descriptor(OPTTokenXhr, OPTCanNegate \cup OPTType \cup OPTNetworkType) @@
    <<"x", "m", "l", "h", "t", "t", "p", "r", "e", "q", "u", "e", "s", "t">> :> Descriptor(OPTTokenXhr, OPTCanNegate \cup OPTType \cup OPTNetworkType) @@
    <<"w", "e", "b", "r", "t", "c">> :> Descriptor(OPTTokenWebrtc, OPTNotSupported) @@
    <<"w", "e", "b", "s", "o", "c", "k", "e", "t">> :> Descriptor(OPTTokenWebsocket, OPTCanNegate \cup OPTType \cup OPTNetworkType)

\* netOptionTokens.get(token): a descriptor, or undefined.
netOptionTokensGet(token) ==
    IF token \in DOMAIN netOptionTokens
    THEN [defined |-> TRUE, d |-> netOptionTokens[token]]
    ELSE [defined |-> FALSE, d |-> InvalidOption]

\* new NetOptionsIterator(parser).  optSlices holds one record for the six
\* entries the source keeps per option: the descriptor (index 0), lopt (1),
\* ltok (2), lval (3), the first slice of the value (4) and the end of the
\* option (5).  `value` tells whether this.value is this.item or undefined.
\* The field `yielded` is not in the source: it records the items that next()
\* has yielded since init().
NoVal == [defined |-> FALSE, text |-> <<>>]

NetOptionsIterator ==
    [exception |-> FALSE, interactive |-> FALSE, optSlices |-> <<>>,
     writePtr |-> 0, readPtr |-> 0,
     item |-> [id |-> OPTTokenInvalid, val |-> NoVal, not |-> FALSE],
     value |-> FALSE, done |-> TRUE, yielded |-> <<>>]

\* new Parser(options).  The field `hist` is not in the source: it records the
\* slices in use after slice() and after every splitSlot() of the last analyze().
\* The field `regexToRawValue` is the map of that name in the closure of
\* compileSelector: the source keeps one for the whole module, and the record
\* carries it so that the functions of the model see it.
Parser(interactive) ==
    reset([interactive |-> interactive, raw |-> <<>>, slices |-> <<>>,
           sliceWritePtr |-> 0, category |-> CATNone, allBits |-> {},
           patternBits |-> {}, optionsBits |-> {}, flavorBits |-> {},
           spans |-> NoSpans, pattern |-> <<>>, result |-> NoResult,
           hist |-> <<>>, regexToRawValue |-> [k \in {} |-> <<>>],
           maxTokenLength |-> MAX_SAFE_INTEGER,
           patternTokenIterator |-> PatternTokenIterator,
           netOptionsIterator |-> NetOptionsIterator])

\* The loop of slice() without the test `bBits !== aBits`: one slice per
\* character.
RECURSIVE sliceScanPerChar(_, _, _, _, _)
sliceScanPerChar(raw, j, i, aBits, acc) ==
    IF j >= Len(raw)
    THEN Append(acc, [bits |-> aBits, o |-> i, l |-> j - i])
    ELSE sliceScanPerChar(raw, j + 1, j, charDescBits(raw[j + 1]),
                          Append(acc, [bits |-> aBits, o |-> i, l |-> j - i]))

\* The loop of slice(): one slice per maximal run of characters of one class.
\* i is the origin of the open slice, aBits its class, j the next character.
RECURSIVE sliceScan(_, _, _, _, _)
sliceScan(raw, j, i, aBits, acc) ==
    IF j >= Len(raw)
    THEN Append(acc, [bits |-> aBits, o |-> i, l |-> j - i])
    ELSE LET bBits == charDescBits(raw[j + 1])
         IN  IF bBits # aBits
             THEN sliceScan(raw, j + 1, j, bBits,
                            Append(acc, [bits |-> aBits, o |-> i, l |-> j - i]))
             ELSE sliceScan(raw, j + 1, i, aBits, acc)

\* The parser with its slices in use added to `hist`.
Logged(q) == [q EXCEPT !.hist = Append(@, Used(q))]

\* The end of slice(): the end-of-line sentinel is at slot eol of the array sl;
\* the spans of the whitespace at both ends.
sliceSpans(p, eol, sl, allBits) ==
    Logged([p EXCEPT !.slices = sl, !.sliceWritePtr = eol + 3,
                     !.allBits = allBits,
                     !.spans.eolSpan.i = eol,
                     !.spans.leftSpaceSpan.l = IF hasBits(sl[1].bits, BITSpace) THEN 3 ELSE 0,
                     !.spans.rightSpaceSpan =
                         IF eol - 3 > p.spans.leftSpaceSpan.i
                            /\ hasBits(Slot(sl, eol - 3).bits, BITSpace)
                         THEN [i |-> eol - 3, l |-> 3]
                         ELSE [i |-> eol, l |-> 0]])

\* The slices `runs` and the sentinel are written from sliceWritePtr on.  The
\* array is reused: what lies beyond the written cells stays.
sliceWrite(p, raw, runs) ==
    sliceSpans(p, p.sliceWritePtr + 3 * Len(runs),
               SubSeq(p.slices, 1, p.sliceWritePtr \div 3)
                   \o Append(runs, [bits |-> {}, o |-> Len(raw), l |-> 0])
                   \o SubSeq(p.slices, (p.sliceWritePtr \div 3) + Len(runs) + 2,
                             Len(p.slices)),
               UNION {runs[k].bits : k \in 1..Len(runs)})

\* slice() after its reset().
sliceRaw(p, raw) ==
    IF raw = <<>> THEN Logged(p)
    ELSE sliceWrite(p, raw, sliceScan(raw, 1, 0, charDescBits(raw[1]), <<>>))

slice(p0, raw) == sliceRaw([reset(p0) EXCEPT !.raw = raw, !.hist = <<>>], raw)

\* The end of splitSlot(): `moved` is the array after copyWithin(), a the
\* slice to cut at l; the second half starts d after the first.
splitCut(p, slot, l, d, a, moved) ==
    Logged([p EXCEPT !.sliceWritePtr = @ + 3,
                     !.slices = [moved EXCEPT ![a + 1].o = moved[a].o + d,
                                              ![a + 1].l = moved[a].l - l,
                                              ![a].l = l],
                     !.spans = [n \in SpanNames |->
                                  IF p.spans[n].i > slot
                                  THEN [p.spans[n] EXCEPT !.i = @ + 3]
                                  ELSE p.spans[n]]])

\* copyWithin(slot + 3, slot, sliceWritePtr - 3) on the array arr; e is the
\* last slice in use before the split.
splitMove(p, slot, l, d, a, e, arr) ==
    splitCut(p, slot, l, d, a,
             SubSeq(arr, 1, a) \o SubSeq(arr, a, e) \o SubSeq(arr, e + 2, Len(arr)))

\* splitSlot(slot, l), with the origin of the second half at d after the first.
splitAt(p, slot, l, d) ==
    splitMove(p, slot, l, d, (slot \div 3) + 1, p.sliceWritePtr \div 3,
              IF p.sliceWritePtr + 3 > 3 * Len(p.slices)
              THEN Append(p.slices, [bits |-> {}, o |-> 0, l |-> 0])
              ELSE p.slices)

\* splitSlot() that gives the second half the origin of the first.
splitSlotSameOrigin(p, slot, l) == splitAt(p, slot, l, 0)

splitSlot(p, slot, l) == splitAt(p, slot, l, l)

RECURSIVE markSlices(_, _, _, _)
markSlices(p, beg, end, bits) ==
    IF beg < end THEN markSlices(OrBits(p, beg, bits), beg + 3, end, bits) ELSE p

RECURSIVE findFirstMatch(_, _, _)
findFirstMatch(p, from, bits) ==
    IF from < p.sliceWritePtr
    THEN IF hasBits(BitsAt(p, from), bits) THEN from
         ELSE findFirstMatch(p, from + 3, bits)
    ELSE -1

RECURSIVE findFirstOdd(_, _, _)
findFirstOdd(p, from, bits) ==
    IF from < p.sliceWritePtr
    THEN IF hasNoBits(BitsAt(p, from), bits) THEN from
         ELSE findFirstOdd(p, from + 3, bits)
    ELSE -1

RECURSIVE skipUntilNotFrom(_, _, _, _)
skipUntilNotFrom(p, i, to, bits) ==
    IF i = to \/ hasNoBits(BitsAt(p, i), bits) THEN i
    ELSE skipUntilNotFrom(p, i + 3, to, bits)

skipUntilNot(p, from, to, bits) == skipUntilNotFrom(p, from + 3, to, bits)

strFromSlices(p, from, to) ==
    jsSlice(p.raw, OrgAt(p, from), OrgAt(p, to) + LenAt(p, to))

strFromSpan(p, span) ==
    IF span.l = 0 THEN <<>>
    ELSE strFromSlices(p, span.i, span.i + span.l - 3)

isBlank(p) == p.allBits = BITSpace

isException(p) == hasBits(p.flavorBits, BITFlavorException)

getNetPattern(p) ==
    LET i == p.spans.patternSpan.i
        l == p.spans.patternSpan.l
        regex == hasBits(p.flavorBits, BITFlavorNetRegex)
        beg == OrgAt(p, i) + (IF regex THEN 1 ELSE 0)
        end == OrgAt(p, i + l) - (IF regex THEN 1 ELSE 0)
    IN  IF p.pattern # <<>> THEN p
        ELSE IF l = 0 THEN p
        ELSE [p EXCEPT !.pattern = jsSlice(p.raw, beg, end)]

patternIsMatchAll(p) ==
    \/ p.spans.patternSpan.l = 0
    \/ p.spans.patternSpan.l = 3 /\ hasBits(p.patternBits, BITAsterisk)

hasError(p) == hasBits(p.flavorBits, BITFlavorError)

shouldDiscard(p) ==
    hasBits(p.flavorBits, BITFlavorError \cup BITFlavorUnsupported \cup BITFlavorIgnore)

RECURSIVE unmarkSlices(_, _, _, _)
unmarkSlices(p, beg, end, bits) ==
    IF beg < end
    THEN unmarkSlices([p EXCEPT !.slices[(beg \div 3) + 1].bits = @ \ bits],
                      beg + 3, end, bits)
    ELSE p

patternHasUppercase(p) == hasBits(p.patternBits, BITUppercase)

\* String.prototype.toLowerCase() on the letters of the model.
UpperLetters == <<"A", "B", "C", "D", "E", "F", "G", "H", "I", "J", "K", "L", "M",
                  "N", "O", "P", "Q", "R", "S", "T", "U", "V", "W", "X", "Y", "Z">>
LowerLetters == <<"a", "b", "c", "d", "e", "f", "g", "h", "i", "j", "k", "l", "m",
                  "n", "o", "p", "q", "r", "s", "t", "u", "v", "w", "x", "y", "z">>

charToLowerCase(c) ==
    IF c \in UpperCase
    THEN LowerLetters[CHOOSE k \in 1..Len(UpperLetters) : UpperLetters[k] = c]
    ELSE c

toLowerCase(s) == [k \in 1..Len(s) |-> charToLowerCase(s[k])]

\* The end of patternToLowercase(): the lowercased pattern replaces the
\* characters of raw from beg up to end.
patternLowered(p, i, l, beg, end) ==
    [unmarkSlices(p, i, i + l, BITUppercase) EXCEPT
        !.raw = jsSlice(@, 0, beg) \o p.pattern \o jsSlice(@, end, Len(@)),
        !.patternBits = @ \ BITUppercase]

patternCached(p, i, l, hasUpper) ==
    IF ~hasUpper THEN p
    ELSE patternLowered([p EXCEPT !.pattern = toLowerCase(@)], i, l,
                        OrgAt(p, i), OrgAt(p, i + l))

patternToLowercase(p) ==
    LET hasUpper == patternHasUppercase(p)
        i == p.spans.patternSpan.i
        l == p.spans.patternSpan.l
    IN  IF ~hasUpper /\ p.pattern # <<>> THEN p
        ELSE IF l = 0 THEN p
        ELSE patternCached([p EXCEPT !.pattern =
                               IF @ # <<>> THEN @
                               ELSE jsSlice(p.raw, OrgAt(p, i), OrgAt(p, i + l))],
                           i, l, hasUpper)

setMaxTokenLength(p, l) == [p EXCEPT !.maxTokenLength = l]

\* PatternTokenIterator.end()
tokenEnd(p) ==
    [p EXCEPT !.patternTokenIterator.value = NoValue,
              !.patternTokenIterator.done = TRUE]

\* PatternTokenIterator[Symbol.iterator]()
tokenIterator(p) ==
    LET i == p.spans.patternSpan.i
        l == p.spans.patternSpan.l
    IN  IF l = 0 THEN tokenEnd(p)
        ELSE [p EXCEPT !.patternTokenIterator =
                  [l |-> i, r |-> i + l, i |-> i, done |-> FALSE,
                   value |-> [defined |-> TRUE, token |-> <<>>, pos |-> 0]]]

\* The first slot from sl on, before r, that holds a token slice; r if none.
RECURSIVE tokenLeft(_, _, _)
tokenLeft(p, sl, r) ==
    IF sl >= r \/ hasBits(BitsAt(p, sl), BITPatternToken) THEN sl
    ELSE tokenLeft(p, sl + 3, r)

\* The first slot from sr on that is r or holds no token slice.
RECURSIVE tokenRight(_, _, _)
tokenRight(p, sr, r) ==
    IF sr < r /\ hasBits(BitsAt(p, sr), BITPatternToken) THEN tokenRight(p, sr + 3, r)
    ELSE sr

\* next() that does not look at the slice before the token.
tokenAcceptedAfterWildcard(p, sl, sr, r) ==
    \/ sr = r
    \/ hasNoBits(BitsAt(p, sr), BITAsterisk)
    \/ OrgAt(p, sr) - OrgAt(p, sl) >= p.maxTokenLength

\* The test of next() that accepts the slices from sl up to sr as a token.
tokenAccepted(p, sl, sr, r) ==
    /\ sl = 0 \/ hasNoBits(BitsAt(p, sl - 3), BITAsterisk)
    /\ \/ sr = r
       \/ hasNoBits(BitsAt(p, sr), BITAsterisk)
       \/ OrgAt(p, sr) - OrgAt(p, sl) >= p.maxTokenLength

tokenYield(p, sl, sr) ==
    [p EXCEPT !.patternTokenIterator.i = sr + 3,
              !.patternTokenIterator.value.token = jsSlice(p.raw, OrgAt(p, sl), OrgAt(p, sr)),
              !.patternTokenIterator.value.pos =
                  OrgAt(p, sl) - OrgAt(p, p.patternTokenIterator.l)]

\* The outer loop of PatternTokenIterator.next(), entered with sl.
RECURSIVE tokenScan(_, _, _)
tokenFound(p, sl, sr, r) ==
    IF tokenAccepted(p, sl, sr, r) THEN tokenYield(p, sl, sr)
    ELSE tokenScan(p, sr + 3, r)

tokenFrom(p, sl, r) ==
    IF sl >= r THEN tokenEnd(p) ELSE tokenFound(p, sl, tokenRight(p, sl + 3, r), r)

tokenScan(p, sl, r) == tokenFrom(p, tokenLeft(p, sl, r), r)

\* PatternTokenIterator.next()
tokenNext(p) == tokenScan(p, p.patternTokenIterator.i, p.patternTokenIterator.r)

RECURSIVE skipUntilFrom(_, _, _, _)
skipUntilFrom(p, i, to, bits) ==
    IF i = to \/ hasBits(BitsAt(p, i), bits) THEN i
    ELSE skipUntilFrom(p, i + 3, to, bits)

skipUntil(p, from, to, bits) == skipUntilFrom(p, from + 3, to, bits)

\* The loop over the middle slices of analyzeDomain(): no slice from i up to
\* last makes the domain invalid.
RECURSIVE domainMiddle(_, _, _)
domainMiddle(p, i, last) ==
    IF i >= last THEN TRUE
    ELSE /\ hasBits(BitsAt(p, i), BITHostname)
         /\ ~(hasBits(BitsAt(p, i), BITPeriod) /\ LenAt(p, i) > 1)
         /\ ~(/\ hasBits(BitsAt(p, i), BITDash)
              /\ \/ hasNoBits(BitsAt(p, i - 3), BITRegexWord \cup BITUnicode)
                 \/ hasNoBits(BitsAt(p, i + 3), BITRegexWord \cup BITUnicode))
         /\ domainMiddle(p, i + 3, last)

\* analyzeDomain() from its test of the last slice on.
domainLast(p, from, to, optionBits) ==
    /\ to - from > 3 =>
           IF hasBits(BitsAt(p, to - 3), BITAsterisk)
           THEN ~(\/ 0 \notin optionBits
                  \/ to - from < 9
                  \/ LenAt(p, to - 3) > 1
                  \/ hasNoBits(BitsAt(p, to - 6), BITPeriod))
           ELSE hasBits(BitsAt(p, to - 3), BITAlphaNum \cup BITUnicode)
    /\ to - from > 6 => domainMiddle(p, from + 3, to - 3)

\* analyzeDomain() after the optional `~`; not tells whether there was one.
domainName(p, from, to, optionBits, not) ==
    IF to - from = 0 THEN FALSE
    ELSE IF to - from = 3 /\ ~not /\ 1 \in optionBits /\ hasBits(BitsAt(p, from), BITAsterisk)
    THEN LenAt(p, from) = 1
    ELSE IF hasNoBits(BitsAt(p, from), BITRegexWord \cup BITUnicode) THEN FALSE
    ELSE domainLast(p, from, to, optionBits)

\* analyzeDomain() without the test of bit 0 of optionBits at line 649: any
\* list takes a negated entry.
analyzeDomainNegatable(p, from, to, optionBits) ==
    IF to - from = 0 THEN FALSE
    ELSE IF hasBits(BitsAt(p, from), BITTilde)
    THEN IF LenAt(p, from) > 1 THEN FALSE
         ELSE domainName(p, from + 3, to, optionBits, TRUE)
    ELSE domainName(p, from, to, optionBits, FALSE)

\* analyzeDomain(from, to, optionBits).  optionBits is the set of the bits
\* that are set: bit 0 allows entities and negation, bit 1 a lone wildcard.
analyzeDomain(p, from, to, optionBits) ==
    IF to - from = 0 THEN FALSE
    ELSE IF hasBits(BitsAt(p, from), BITTilde)
    THEN IF 0 \notin optionBits \/ LenAt(p, from) > 1 THEN FALSE
         ELSE domainName(p, from + 3, to, optionBits, TRUE)
    ELSE domainName(p, from, to, optionBits, FALSE)

\* The loop of analyzeDomainList(), and the dangling separator after it.
RECURSIVE domainListFrom(_, _, _, _, _)
domainListEntry(p, beg, end, to, bitSeparator, optionBits) ==
    domainListFrom(IF analyzeDomain(p, beg, end, optionBits) THEN p
                   ELSE markSlices(p, beg, end, BITError),
                   end + 3, to, bitSeparator, optionBits)

domainListFrom(p, beg, to, bitSeparator, optionBits) ==
    IF beg < to
    THEN domainListEntry(p, beg, skipUntil(p, beg, to, bitSeparator), to,
                         bitSeparator, optionBits)
    ELSE IF hasBits(BitsAt(p, to - 3), bitSeparator)
    THEN markSlices(p, to - 3, to, BITError)
    ELSE p

analyzeDomainList(p, from, to, bitSeparator, optionBits) ==
    IF from >= to THEN p ELSE domainListFrom(p, from, to, bitSeparator, optionBits)

\* The counters of NetOptionsIterator.init().
NoCounts ==
    [typeCount |-> 0, networkTypeCount |-> 0, redirectIndex |-> -1, cspIndex |-> -1,
     writePtr |-> 0]

\* optSlices[writePtr+0 .. writePtr+5] = entry
optSlicesPut(optSlices, writePtr, entry) ==
    IF (writePtr \div 6) + 1 <= Len(optSlices)
    THEN [optSlices EXCEPT ![(writePtr \div 6) + 1] = entry]
    ELSE Append(optSlices, entry)

optSlicesAt(p, index) == p.netOptionsIterator.optSlices[(index \div 6) + 1]

\* init(): the option stored at index of optSlices is made invalid.
optionInvalidated(p, index) ==
    LET q == [p EXCEPT !.netOptionsIterator.optSlices[(index \div 6) + 1].descriptor =
                           InvalidOption]
    IN  IF p.netOptionsIterator.interactive
        THEN markSlices(q, optSlicesAt(p, index).lopt, optSlicesAt(p, index).end, BITError)
        ELSE q

\* init(): `redirect` requires one single network type.
optionsRedirect(p, c) ==
    IF c.redirectIndex # -1 /\ c.typeCount # 1 /\ c.networkTypeCount # 1
    THEN optionInvalidated(p, c.redirectIndex)
    ELSE p

\* init(): `csp` can't be used with any other types.
optionsCsp(p, c) ==
    optionsRedirect(IF c.cspIndex # -1 /\ c.typeCount # 0
                    THEN optionInvalidated(p, c.cspIndex)
                    ELSE p,
                    c)

\* init() after the loop: the write pointer is stored, a dangling comma is marked.
optionsClose(p, c, ropts) ==
    optionsCsp(IF /\ p.netOptionsIterator.interactive
                  /\ hasBits(BitsAt(p, ropts - 3), BITComma)
               THEN [OrBits(p, ropts - 3, BITError) EXCEPT
                        !.netOptionsIterator.writePtr = c.writePtr]
               ELSE [p EXCEPT !.netOptionsIterator.writePtr = c.writePtr],
               c)

\* The slot of the comma that ends the option, or ropts.
RECURSIVE optionEnd(_, _, _)
optionEnd(p, i, ropts) ==
    IF i < ropts /\ hasNoBits(BitsAt(p, i), BITComma) THEN optionEnd(p, i + 3, ropts) ELSE i

\* The slot of the first `=` slice of the option, or 0.
RECURSIVE optionEqual(_, _, _)
optionEqual(p, i, end) ==
    IF i >= end THEN 0
    ELSE IF hasBits(BitsAt(p, i), BITEqual) THEN i
    ELSE optionEqual(p, i + 3, end)

\* The option that init() is at: its slots lopt, ltok, lval and i, the end
\* ropts of the options, and the variables good and assigned.
Option(lopt, ltok, good, ropts) ==
    [lopt |-> lopt, ltok |-> ltok, lval |-> 0, i |-> ltok, ropts |-> ropts,
     good |-> good, assigned |-> FALSE]

RECURSIVE optionLoop(_, _, _, _)

\* init(): the option is stored; then the domain list of its value is
\* analyzed, and the loop goes on after the comma.
optionDomains(p, c, o, descriptor) ==
    optionLoop(IF /\ o.lval # 0 /\ p.netOptionsIterator.interactive
                  /\ hasBits(descriptor.flags, OPTDomainList)
               THEN analyzeDomainList(p, o.lval + 3, o.i, BITPipe,
                                      IF descriptor.id = OPTTokenDomain THEN {0} ELSE {})
               ELSE p,
               [c EXCEPT !.writePtr = @ + 6], o.i + 3, o.ropts)

optionStore(p, c, o, descriptor) ==
    optionDomains([p EXCEPT !.netOptionsIterator.optSlices =
                      optSlicesPut(@, c.writePtr,
                          [descriptor |-> descriptor, lopt |-> o.lopt, ltok |-> o.ltok,
                           lval |-> IF o.lval # 0 THEN o.lval ELSE o.i,
                           val |-> IF o.lval # 0 THEN o.lval + 3 ELSE o.i,
                           end |-> o.i])],
                  c, o, descriptor)

\* init(): the slices of an invalid or unsupported option are marked.
optionMark(p, c, o, descriptor) ==
    optionStore(IF /\ p.netOptionsIterator.interactive
                   /\ \/ descriptor = InvalidOption
                      \/ hasBits(descriptor.flags, OPTNotSupported)
                THEN markSlices(p, o.lopt, o.i, BITError)
                ELSE p,
                c, o, descriptor)

\* init(): only one `redirect` or `csp` can be present.
isRepeated(c, descriptor) ==
    IF hasBits(descriptor.flags, OPTRedirectType) THEN c.redirectIndex # -1
    ELSE descriptor.id = OPTTokenCsp /\ c.cspIndex # -1

\* init() that keeps every `csp` and every `redirect`.
firstIndexNotKept(c, descriptor) == c

firstIndex(c, descriptor) ==
    IF hasBits(descriptor.flags, OPTRedirectType)
    THEN IF c.redirectIndex = -1 THEN [c EXCEPT !.redirectIndex = c.writePtr] ELSE c
    ELSE IF descriptor.id = OPTTokenCsp /\ c.cspIndex = -1
    THEN [c EXCEPT !.cspIndex = c.writePtr]
    ELSE c

optionUnique(p, c, o, descriptor) ==
    optionMark(p, firstIndex(c, descriptor), o,
               IF isRepeated(c, descriptor) THEN InvalidOption ELSE descriptor)

\* init(): keep count of types.
optionCount(p, c, o, descriptor) ==
    optionUnique(p,
                 [c EXCEPT !.typeCount =
                               IF hasBits(descriptor.flags, OPTType) THEN @ + 1 ELSE @,
                           !.networkTypeCount =
                               IF /\ hasBits(descriptor.flags, OPTType)
                                  /\ hasBits(descriptor.flags, OPTNetworkType)
                               THEN @ + 1 ELSE @],
                 o, descriptor)

\* init(): validate option according to context.
isInvalidOption(p, o, found) ==
    \/ ~found.defined
    \/ o.ltok # o.lopt /\ hasNoBits(found.d.flags, OPTCanNegate)
    \/ p.netOptionsIterator.exception /\ hasBits(found.d.flags, OPTBlockOnly)
    \/ ~p.netOptionsIterator.exception /\ hasBits(found.d.flags, OPTAllowOnly)
    \/ o.assigned /\ hasNoBits(found.d.flags, OPTMustAssign)
    \/ /\ ~o.assigned
       /\ hasBits(found.d.flags, OPTMustAssign)
       /\ \/ ~p.netOptionsIterator.exception
          \/ hasNoBits(found.d.flags, OPTAllowMayAssign)

optionValidate(p, c, o, found) ==
    optionCount(p, c, o, IF isInvalidOption(p, o, found) THEN InvalidOption ELSE found.d)

\* init(): the token of a good option is looked up.
optionToken(p, c, o) ==
    optionValidate(p, c, o,
        IF o.good
        THEN netOptionTokensGet(jsSlice(p.raw, OrgAt(p, o.ltok),
                                        OrgAt(p, IF o.lval = 0 THEN o.i ELSE o.lval)))
        ELSE [defined |-> FALSE, d |-> InvalidOption])

\* init(): check for proper assignment.
optionAssigned(p, c, o) ==
    optionToken(p, c,
        IF o.good /\ o.lval # 0
        THEN [o EXCEPT !.good = LenAt(p, o.lval) = 1 /\ o.lval + 3 # o.i,
                       !.assigned = LenAt(p, o.lval) = 1 /\ o.lval + 3 # o.i]
        ELSE o)

\* init(): the end of the option was found at i.
optionFound(p, c, o, i) ==
    optionAssigned(IF /\ i < o.ropts /\ p.netOptionsIterator.interactive
                      /\ (i = o.lopt \/ LenAt(p, i) > 1)
                   THEN OrBits(p, i, BITError)
                   ELSE p,
                   c, [o EXCEPT !.i = i, !.lval = optionEqual(p, o.ltok, i)])

\* init(): parse the optional negation, then find the end of the option.
optionNegated(p, c, o) == optionFound(p, c, o, optionEnd(p, o.ltok, o.ropts))

optionLoop(p, c, lopt, ropts) ==
    IF lopt < ropts
    THEN optionNegated(p, c,
             IF hasBits(BitsAt(p, lopt), BITTilde)
             THEN Option(lopt, lopt + 3, LenAt(p, lopt) <= 1, ropts)
             ELSE Option(lopt, lopt, TRUE, ropts))
    ELSE optionsClose(p, c, ropts)

\* NetOptionsIterator.init()
netOptionsInit(p) ==
    IF p.spans.optionsSpan.l = 0
    THEN [p EXCEPT !.netOptionsIterator.readPtr = 0,
                   !.netOptionsIterator.writePtr = 0,
                   !.netOptionsIterator.done = TRUE,
                   !.netOptionsIterator.value = FALSE,
                   !.netOptionsIterator.yielded = <<>>]
    ELSE optionLoop([p EXCEPT !.netOptionsIterator.readPtr = 0,
                              !.netOptionsIterator.writePtr = 0,
                              !.netOptionsIterator.done = FALSE,
                              !.netOptionsIterator.value = TRUE,
                              !.netOptionsIterator.exception = isException(p),
                              !.netOptionsIterator.interactive = p.interactive,
                              !.netOptionsIterator.yielded = <<>>],
                    NoCounts, p.spans.optionsSpan.i,
                    p.spans.optionsSpan.i + p.spans.optionsSpan.l)

\* NetOptionsIterator.next(): the item of the entry e of optSlices is yielded.
optionYield(p, item) ==
    [p EXCEPT !.netOptionsIterator.item = item,
              !.netOptionsIterator.readPtr = @ + 6,
              !.netOptionsIterator.yielded = Append(@, item)]

optionItem(p, e) ==
    [id |-> e.descriptor.id,
     not |-> e.ltok # e.lopt,
     val |-> IF e.val # e.end
             THEN [defined |-> TRUE,
                   text |-> jsSlice(p.raw, OrgAt(p, e.val), OrgAt(p, e.end))]
             ELSE NoVal]

\* NetOptionsIterator.next()
netOptionsNext(p) ==
    IF p.netOptionsIterator.readPtr = p.netOptionsIterator.writePtr
    THEN [p EXCEPT !.netOptionsIterator.value = FALSE,
                   !.netOptionsIterator.done = TRUE]
    ELSE optionYield(p, optionItem(p, optSlicesAt(p, p.netOptionsIterator.readPtr)))

markSpan(p, span, bits) == markSlices(p, span.i, span.i + span.l, bits)

patternIsRegex(p) == hasBits(p.flavorBits, BITFlavorNetRegex)

patternIsDubious(p) ==
    /\ p.patternBits # BITAsterisk
    /\ p.spans.optionsSpan.l = 0
    /\ p.spans.patternSpan.l = 3
    /\ LenAt(p, p.spans.patternSpan.i) = 1

(***************************************************************************)
(* Strings of the source are sequences of characters here; positions are   *)
(* the source's, counted from 0.                                           *)
(***************************************************************************)
WordChars == LowerCase \cup UpperCase \cup Digits \cup {"_"}

Min(S) == CHOOSE x \in S : \A y \in S : x <= y
Max(S) == CHOOSE x \in S : \A y \in S : y <= x

startsWith(s, w) == Len(s) >= Len(w) /\ SubSeq(s, 1, Len(w)) = w
endsWith(s, w) == Len(s) >= Len(w) /\ SubSeq(s, Len(s) - Len(w) + 1, Len(s)) = w

\* w is in s from position k (counted from 1) on
matchAt(s, k, w) == k >= 1 /\ k + Len(w) - 1 <= Len(s) /\ SubSeq(s, k, k + Len(w) - 1) = w

\* s.indexOf(c) for a character c
indexOf(s, c) ==
    LET K == {k \in 1..Len(s) : s[k] = c}
    IN  IF K = {} THEN -1 ELSE Min(K) - 1

RECURSIVE TrimLeft(_)
TrimLeft(raw) ==
    IF raw # <<>> /\ Head(raw) \in WhiteSpace THEN TrimLeft(Tail(raw)) ELSE raw

RECURSIVE TrimRight(_)
TrimRight(raw) ==
    IF raw # <<>> /\ raw[Len(raw)] \in WhiteSpace
    THEN TrimRight(SubSeq(raw, 1, Len(raw) - 1))
    ELSE raw

\* The length of the run of characters of `class` that starts at s[k]
RECURSIVE runLength(_, _, _)
runLength(s, k, class) ==
    IF k <= Len(s) /\ s[k] \in class THEN 1 + runLength(s, k + 1, class) ELSE 0

\* s.trim()
trim(s) == TrimRight(TrimLeft(s))

\* A value that may be undefined, as `compiled` of the result is.
Undefined == [defined |-> FALSE, text |-> <<>>]
Str(s) == [defined |-> TRUE, text |-> s]

(***************************************************************************)
(* Extended filters: the selector compiler                                 *)
(***************************************************************************)
\* reSimple.test(s):  /^[#.][A-Za-z_][\w-]*$/
reSimple(s) ==
    /\ Len(s) >= 2
    /\ s[1] \in {"#", "."}
    /\ s[2] \in LowerCase \cup UpperCase \cup {"_"}
    /\ \A k \in 3..Len(s) : s[k] \in WordChars \cup {"-"}

\* t, the text after a `:`, completes a match of rePseudo:
\*   /:(?::?after|:?before|:[a-z][a-z-]*[a-z])$/
rePseudoTail(t) ==
    \/ t \in {<<"a", "f", "t", "e", "r">>, <<":", "a", "f", "t", "e", "r">>,
              <<"b", "e", "f", "o", "r", "e">>, <<":", "b", "e", "f", "o", "r", "e">>}
    \/ /\ Len(t) >= 3
       /\ t[1] = ":"
       /\ t[2] \in LowerCase
       /\ t[Len(t)] \in LowerCase
       /\ \A k \in 3..(Len(t) - 1) : t[k] \in LowerCase \cup {"-"}

\* cssPseudoSelector(s): where the pseudo-element at the end of s starts, or -1.
cssPseudoSelector(s) ==
    LET K == {k \in 1..Len(s) : s[k] = ":" /\ rePseudoTail(SubSeq(s, k + 1, Len(s)))}
    IN  IF K = {} THEN -1 ELSE Min(K) - 1

\* Where the attribute selector that opens with the `[` at s[k] ends (the
\* position after its `]`), or 0 if there is none:  [name], [name=value] with
\* one of the operators = ~= |= ^= $= *= and a value that is an identifier or
\* a quoted string.  The operators below read it piece by piece.
attributeClose(s, w) == IF w <= Len(s) /\ s[w] = "]" THEN w + 1 ELSE 0

attributeQuoted(s, v, Q) == IF Q = {} THEN 0 ELSE attributeClose(s, Min(Q) + 1)

attributeIdent(s, v, n) == IF n = 0 THEN 0 ELSE attributeClose(s, v + n)

attributeValue(s, v) ==
    IF v > Len(s) THEN 0
    ELSE IF s[v] \in {"'", "\""}
    THEN attributeQuoted(s, v, {j \in (v + 1)..Len(s) : s[j] = s[v]})
    ELSE attributeIdent(s, v, runLength(s, v, WordChars \cup {"-"}))

attributeEquals(s, o) == IF o > Len(s) \/ s[o] # "=" THEN 0 ELSE attributeValue(s, o + 1)

attributeOperator(s, e) ==
    IF e > Len(s) THEN 0
    ELSE IF s[e] = "]" THEN e + 1
    ELSE attributeEquals(s, IF s[e] \in {"~", "|", "^", "$", "*"} THEN e + 1 ELSE e)

attributeName(s, n) ==
    IF n > Len(s) \/ s[n] \notin LowerCase \cup UpperCase \cup {"_"} THEN 0
    ELSE attributeOperator(s, n + runLength(s, n, WordChars \cup {"-"}))

attributeEnd(s, k) ==
    attributeName(s, IF k + 1 <= Len(s) /\ s[k + 1] = "-" THEN k + 2 ELSE k + 1)

\* The verdict of the browser, which the source asks with
\*   div.matches(`${s}, ${s}:not(#foo)`)
\* is not in the source.  It is modelled for the selectors the lines of the
\* model can hold: a list of complex selectors, each a chain of compound
\* selectors (a tag name or `*`, then `.class`, `#id`, `[attribute]`, `:scope`
\* and `:not(...)` parts) joined by whitespace, `>`, `+` or `~`.  st is what
\* the scan has just read: "start" (nothing of a complex selector yet), "name",
\* "mark" (a `.` or `#`), "star", "space", "comb" (a combinator) or "close"
\* (the end of a `:not(...)`, `:scope` or `[...]`); depth counts the open
\* `:not(`.
RECURSIVE domScan(_, _, _, _)

\* The scan goes on after the attribute selector that ends before s[end].
domAttribute(s, end, depth) == end # 0 /\ domScan(s, end, "close", depth)

domScan(s, k, st, depth) ==
    LET c == s[k]
        ended == st \in {"name", "star", "space", "close"}
        rest == SubSeq(s, k + 1, Len(s))
    IN  IF k > Len(s) THEN ended /\ depth = 0
        ELSE IF c \in LowerCase \cup UpperCase \cup {"_"}
        THEN st \in {"start", "comb", "space", "mark", "name"} /\ domScan(s, k + 1, "name", depth)
        ELSE IF c \in Digits \cup {"-"}
        THEN st = "name" /\ domScan(s, k + 1, "name", depth)
        ELSE IF c \in {".", "#"}
        THEN st # "mark" /\ domScan(s, k + 1, "mark", depth)
        ELSE IF c = "*"
        THEN st \in {"start", "comb", "space"} /\ domScan(s, k + 1, "star", depth)
        ELSE IF c \in WhiteSpace
        THEN st # "mark" /\ domScan(s, k + 1, IF ended THEN "space" ELSE st, depth)
        ELSE IF c \in {">", "+", "~"}
        THEN ended /\ domScan(s, k + 1, "comb", depth)
        ELSE IF c = ","
        THEN ended /\ domScan(s, k + 1, "start", depth)
        ELSE IF c = "["
        THEN st # "mark" /\ domAttribute(s, attributeEnd(s, k), depth)
        ELSE IF c = ":" /\ startsWith(rest, <<"s", "c", "o", "p", "e">>)
        THEN /\ st # "mark"
             /\ (k + 6 > Len(s) \/ s[k + 6] \notin WordChars \cup {"-"})
             /\ domScan(s, k + 6, "close", depth)
        ELSE IF c = ":"
        THEN /\ st # "mark"
             /\ startsWith(rest, <<"n", "o", "t", "(">>)
             /\ domScan(s, k + 5, "start", depth + 1)
        ELSE IF c = ")"
        THEN ended /\ depth > 0 /\ domScan(s, k + 1, "close", depth - 1)
        ELSE FALSE

domAccepts(s) == domScan(s, 1, "start", 0)

\* cssSelectorType(s): 0 not a valid CSS selector, 1 valid without a
\* pseudo-element, 3 valid with one.
RECURSIVE cssSelectorType(_)
cssSelectorType(s) ==
    LET pos == cssPseudoSelector(s)
    IN  IF reSimple(s) THEN 1
        ELSE IF pos # -1
        THEN IF cssSelectorType(jsSlice(s, 0, pos)) = 1 THEN 3 ELSE 0
        ELSE IF domAccepts(s) THEN 1
        ELSE 0

\* The operator names of reProceduralOperator, without the `:`.
ProceduralOperators ==
    {<<"-", "a", "b", "p", "-", "c", "o", "n", "t", "a", "i", "n", "s">>,
     <<"-", "a", "b", "p", "-", "h", "a", "s">>,
     <<"c", "o", "n", "t", "a", "i", "n", "s">>,
     <<"h", "a", "s">>,
     <<"h", "a", "s", "-", "t", "e", "x", "t">>,
     <<"i", "f">>,
     <<"i", "f", "-", "n", "o", "t">>,
     <<"m", "a", "t", "c", "h", "e", "s", "-", "c", "s", "s">>,
     <<"m", "a", "t", "c", "h", "e", "s", "-", "c", "s", "s", "-", "a", "f", "t", "e", "r">>,
     <<"m", "a", "t", "c", "h", "e", "s", "-", "c", "s", "s", "-", "b", "e", "f", "o", "r", "e">>,
     <<"m", "i", "n", "-", "t", "e", "x", "t", "-", "l", "e", "n", "g", "t", "h">>,
     <<"n", "o", "t">>,
     <<"n", "t", "h", "-", "a", "n", "c", "e", "s", "t", "o", "r">>,
     <<"r", "e", "m", "o", "v", "e">>,
     <<"s", "t", "y", "l", "e">>,
     <<"u", "p", "w", "a", "r", "d">>,
     <<"w", "a", "t", "c", "h", "-", "a", "t", "t", "r">>,
     <<"w", "a", "t", "c", "h", "-", "a", "t", "t", "r", "s">>,
     <<"x", "p", "a", "t", "h">>}

\* reProceduralOperator.exec(s): the text matched, an operator name and `(`, or
\* <<>> for no match.  No name followed by `(` is the head of another.
reProceduralOperator(s) ==
    LET M == {n \in ProceduralOperators : startsWith(s, n \o <<"(">>)}
    IN  IF M = {} THEN <<>> ELSE (CHOOSE n \in M : TRUE) \o <<"(">>

\* normalizedOperators.get(operator) || operator
normalizedOperators(op) ==
    CASE op = <<":", "-", "a", "b", "p", "-", "c", "o", "n", "t", "a", "i", "n", "s">>
            -> <<":", "h", "a", "s", "-", "t", "e", "x", "t">>
      [] op = <<":", "-", "a", "b", "p", "-", "h", "a", "s">> -> <<":", "h", "a", "s">>
      [] op = <<":", "c", "o", "n", "t", "a", "i", "n", "s">>
            -> <<":", "h", "a", "s", "-", "t", "e", "x", "t">>
      [] op = <<":", "n", "t", "h", "-", "a", "n", "c", "e", "s", "t", "o", "r">>
            -> <<":", "u", "p", "w", "a", "r", "d">>
      [] op = <<":", "w", "a", "t", "c", "h", "-", "a", "t", "t", "r", "s">>
            -> <<":", "w", "a", "t", "c", "h", "-", "a", "t", "t", "r">>
      [] OTHER -> op

\* The names of the operators after normalizedOperators.
OpHas == <<":", "h", "a", "s">>
OpHasText == <<":", "h", "a", "s", "-", "t", "e", "x", "t">>
OpIf == <<":", "i", "f">>
OpIfNot == <<":", "i", "f", "-", "n", "o", "t">>
OpMatchesCss == <<":", "m", "a", "t", "c", "h", "e", "s", "-", "c", "s", "s">>
OpMatchesCssAfter == OpMatchesCss \o <<"-", "a", "f", "t", "e", "r">>
OpMatchesCssBefore == OpMatchesCss \o <<"-", "b", "e", "f", "o", "r", "e">>
OpMinTextLength == <<":", "m", "i", "n", "-", "t", "e", "x", "t", "-", "l", "e", "n", "g", "t", "h">>
OpNot == <<":", "n", "o", "t">>
OpRemove == <<":", "r", "e", "m", "o", "v", "e">>
OpSpath == <<":", "s", "p", "a", "t", "h">>
OpStyle == <<":", "s", "t", "y", "l", "e">>
OpUpward == <<":", "u", "p", "w", "a", "r", "d">>
OpWatchAttr == <<":", "w", "a", "t", "c", "h", "-", "a", "t", "t", "r">>
OpXpath == <<":", "x", "p", "a", "t", "h">>

actionOperators == {OpRemove, OpStyle}

\* The values a task's argument can take.
StringArg(s) == [kind |-> "string", s |-> s]
RegexArg(s, flags) == [kind |-> "regex", s |-> s, flags |-> flags]
DeclArg(name, value) == [kind |-> "decl", name |-> name, value |-> value]
NumberArg(digits) == [kind |-> "number", digits |-> digits]
ListArg(items) == [kind |-> "list", items |-> items]
SelectorArg(c) == [kind |-> "selector", c |-> c]

\* What a compile function returns: ok is FALSE for `undefined`; map is
\* regexToRawValue as the call leaves it.
Fail(map) == [ok |-> FALSE, v |-> <<>>, map |-> map]
Done(v, map) == [ok |-> TRUE, v |-> v, map |-> map]

\* regexToRawValue.set(key, value)
MapSet(map, key, value) ==
    [k \in DOMAIN map \cup {key} |-> IF k = key THEN value ELSE map[k]]

EmptyMap == [k \in {} |-> <<>>]

\* reParseRegexLiteral.exec(s):  /^\/(.+)\/([imu]+)?$/
\* The `/` that closes the literal is the last one of s.
reParseRegexLiteral(s) ==
    LET K == {k \in 1..Len(s) : s[k] = "/"}
        j == Max(K)
        flags == SubSeq(s, j + 1, Len(s))
    IN  IF /\ s # <<>>
           /\ s[1] = "/"
           /\ j >= 3
           /\ \A k \in 1..Len(flags) : flags[k] \in {"i", "m", "u"}
        THEN [matched |-> TRUE, re |-> SubSeq(s, 2, j - 1), flags |-> flags]
        ELSE [matched |-> FALSE, re |-> <<>>, flags |-> <<>>]

\* s.replace(reEatBackslashes, '$1'):  /\\([()])/g
RECURSIVE eatBackslashes(_)
eatBackslashes(s) ==
    IF s = <<>> THEN <<>>
    ELSE IF Len(s) >= 2 /\ s[1] = "\\" /\ s[2] \in {"(", ")"}
    THEN <<s[2]>> \o eatBackslashes(SubSeq(s, 3, Len(s)))
    ELSE <<s[1]>> \o eatBackslashes(Tail(s))

\* s.replace(reEscapeRegex, '\\$&'):  /[.*+?^${}()|[\]\\]/g
RECURSIVE escapeRegex(_)
escapeRegex(s) ==
    IF s = <<>> THEN <<>>
    ELSE IF s[1] \in {".", "*", "+", "?", "^", "$", "{", "}", "(", ")", "|", "[", "]", "\\"}
    THEN <<"\\", s[1]>> \o escapeRegex(Tail(s))
    ELSE <<s[1]>> \o escapeRegex(Tail(s))

\* Whether `new RegExp(s)` throws is the verdict of the JavaScript engine, not
\* of the source.  It is modelled by what makes the regexes of the model's
\* lines invalid: a quantifier at the head, a `\` at the end, a `)` without its
\* `(`, or a `(` or `[` left open.
RECURSIVE regexScan(_, _, _, _)
regexScan(s, k, depth, inClass) ==
    IF k > Len(s) THEN depth = 0 /\ ~inClass
    ELSE IF s[k] = "\\" THEN k < Len(s) /\ regexScan(s, k + 2, depth, inClass)
    ELSE IF inClass THEN regexScan(s, k + 1, depth, s[k] # "]")
    ELSE IF s[k] = "[" THEN regexScan(s, k + 1, depth, TRUE)
    ELSE IF s[k] = "(" THEN regexScan(s, k + 1, depth + 1, FALSE)
    ELSE IF s[k] = ")" THEN depth > 0 /\ regexScan(s, k + 1, depth - 1, FALSE)
    ELSE regexScan(s, k + 1, depth, FALSE)

isBadRegex(s) ==
    \/ s # <<>> /\ s[1] \in {"*", "+", "?"}
    \/ ~regexScan(s, 1, 0, FALSE)

\* The argument a regex literal stands for: [ regex, flags ] or the regex alone.
regexArgument(match) ==
    IF match.flags # <<>> THEN RegexArg(match.re, match.flags) ELSE StringArg(match.re)

\* Lines 1196-1205 of compileText(): the text s is not a regex literal.
compileTextLiteral(s, map, regexDetails) ==
    Done(StringArg(regexDetails), MapSet(map, regexDetails, s))

\* compileText() after reParseRegexLiteral.exec(s)
compileTextMatch(s, map, match) ==
    IF match.matched
    THEN IF isBadRegex(match.re) THEN Fail(map) ELSE Done(regexArgument(match), map)
    ELSE compileTextLiteral(s, map, escapeRegex(eatBackslashes(s)))

\* compileText(s): the argument of :has-text().
compileText(s, map) == compileTextMatch(s, map, reParseRegexLiteral(s))

\* Lines 1221-1225 of compileCSSDeclaration(): the value is not a regex literal.
compileCSSLiteral(name, value, map, regexDetails) ==
    Done(DeclArg(name, StringArg(regexDetails)), MapSet(map, regexDetails, value))

\* compileCSSDeclaration() after reParseRegexLiteral.exec(value)
compileCSSMatch(name, value, map, match) ==
    IF match.matched
    THEN IF isBadRegex(match.re) THEN Fail(map)
         ELSE Done(DeclArg(name, regexArgument(match)), map)
    ELSE compileCSSLiteral(name, value, map, <<"^">> \o escapeRegex(value) \o <<"$">>)

\* compileCSSDeclaration() once name and value are known
compileCSSValue(name, value, map) ==
    compileCSSMatch(name, value, map, reParseRegexLiteral(value))

\* compileCSSDeclaration() with pos = s.indexOf(':')
compileCSSAt(s, pos, map) ==
    IF pos = -1 THEN Fail(map)
    ELSE compileCSSValue(trim(jsSlice(s, 0, pos)), trim(jsSlice(s, pos + 1, Len(s))), map)

\* compileCSSDeclaration(s): the argument of :matches-css() and its variants.
compileCSSDeclaration(s, map) == compileCSSAt(s, indexOf(s, ":"), map)

\* Integers are kept as their decimal digits, without leading zeros: the
\* source compares values up to 2^31 and beyond.
DigitChars == <<"0", "1", "2", "3", "4", "5", "6", "7", "8", "9">>
DigitValue(c) == (CHOOSE d \in 1..10 : DigitChars[d] = c) - 1

RECURSIVE stripZeros(_)
stripZeros(s) == IF Len(s) > 1 /\ s[1] = "0" THEN stripZeros(Tail(s)) ELSE s

RECURSIVE digitsLess(_, _)
digitsLess(a, b) ==
    IF Len(a) # Len(b) THEN Len(a) < Len(b)
    ELSE IF a = <<>> THEN FALSE
    ELSE IF a[1] # b[1] THEN DigitValue(a[1]) < DigitValue(b[1])
    ELSE digitsLess(Tail(a), Tail(b))

\* 0x7FFFFFFF, the default of max in compileInteger()
MaxInteger == <<"2", "1", "4", "7", "4", "8", "3", "6", "4", "7">>

\* compileInteger(s, min, max); min and max are given by their digits.
compileInteger(s, min, max, map) ==
    LET n == stripZeros(s)
    IN  IF s = <<>> \/ \E k \in 1..Len(s) : s[k] \notin Digits THEN Fail(map)
        ELSE IF digitsLess(n, min) \/ ~digitsLess(n, max) THEN Fail(map)
        ELSE Done(NumberArg(n), map)

\* compileUpwardArgument() with i = compileInteger(s, 1, 256)
compileUpwardInteger(s, map, i) ==
    IF i.ok THEN i
    ELSE IF cssSelectorType(s) = 1 THEN Done(StringArg(s), map)
    ELSE Fail(map)

\* compileUpwardArgument(s)
compileUpwardArgument(s, map) ==
    compileUpwardInteger(s, map, compileInteger(s, <<"1">>, <<"2", "5", "6">>, map))

\* compileRemoveSelector(s)
compileRemoveSelector(s, map) == IF s = <<>> THEN Done(StringArg(s), map) ELSE Fail(map)

\* compileSpathExpression(s)
compileSpathExpression(s, map) ==
    IF cssSelectorType(<<"*">> \o s) = 1 THEN Done(StringArg(s), map) ELSE Fail(map)

\* /url\(|\\/i.test(s)
reUrlOrBackslash(s) ==
    \E k \in 1..Len(s) :
        \/ s[k] = "\\"
        \/ /\ k + 3 <= Len(s)
           /\ s[k] \in {"u", "U"} /\ s[k + 1] \in {"r", "R"}
           /\ s[k + 2] \in {"l", "L"} /\ s[k + 3] = "("

\* Whether the browser keeps anything of `div.style.cssText = s` is its verdict,
\* not the source's.  It is modelled as: s starts with a declaration, a property
\* name of letters and `-`, a `:`, and a value.
styleAccepts(s) ==
    LET pos == indexOf(s, ":")
        name == trim(jsSlice(s, 0, pos))
        value == trim(jsSlice(s, pos + 1, Len(s)))
    IN  /\ pos > 0
        /\ name # <<>>
        /\ \A k \in 1..Len(name) : name[k] \in LowerCase \cup UpperCase \cup {"-"}
        /\ value # <<>>
        /\ value[1] \notin {";", ":"}

\* compileStyleProperties(s)
compileStyleProperties(s, map) ==
    IF reUrlOrBackslash(s) THEN Fail(map)
    ELSE IF ~styleAccepts(s) THEN Fail(map)
    ELSE Done(StringArg(s), map)

\* s.split(sep), for a separator that is not empty
RECURSIVE split(_, _, _)
split(s, sep, piece) ==
    IF s = <<>> THEN <<piece>>
    ELSE IF startsWith(s, sep)
    THEN <<piece>> \o split(SubSeq(s, Len(sep) + 1, Len(s)), sep, <<>>)
    ELSE split(Tail(s), sep, Append(piece, s[1]))

\* The loop of compileAttrList(): the attrs that are not empty.
RECURSIVE nonEmpty(_)
nonEmpty(attrs) ==
    IF attrs = <<>> THEN <<>>
    ELSE IF Head(attrs) = <<>> THEN nonEmpty(Tail(attrs))
    ELSE <<Head(attrs)>> \o nonEmpty(Tail(attrs))

\* compileAttrList(s).  The separator is written as the string '\s*,\s*', whose
\* characters are  s * , s *
compileAttrList(s, map) ==
    Done(ListArg(nonEmpty(split(s, <<"s", "*", ",", "s", "*">>, <<>>))), map)

\* Whether document.createExpression(s, null) throws is the verdict of the
\* browser.  It is modelled as: an expression is a path that starts with `/`,
\* `.`, `*` or a name and closes the `(` and `[` it opens.
xpathAccepts(s) ==
    /\ s # <<>>
    /\ s[1] \in {"/", ".", "*"} \cup LowerCase \cup UpperCase
    /\ regexScan(s, 1, 0, FALSE)

\* compileXpathExpression(s)
compileXpathExpression(s, map) ==
    IF xpathAccepts(s) THEN Done(StringArg(s), map) ELSE Fail(map)

\* reNeedScope.test(s):  /^\s*>/
reNeedScope(s) == startsWith(TrimLeft(s), <<">">>)

\* reIsDanglingSelector.test(s):  /[+>~\s]\s*$/
reIsDanglingSelector(s) ==
    /\ s # <<>>
    /\ \/ s[Len(s)] \in WhiteSpace
       \/ s[Len(s)] \in {"+", ">", "~"}

\* reIsSiblingSelector.test(s):  /^\s*[+~]/
reIsSiblingSelector(s) ==
    TrimLeft(s) # <<>> /\ Head(TrimLeft(s)) \in {"+", "~"}

\* The loop of lines 1431-1441: from position i to the end of the argument.
\* c is the character read last, pcnt the number of `(` still open.
RECURSIVE argumentEnd(_, _, _, _)
argumentEnd(raw, i, pcnt, c) ==
    IF i >= Len(raw) THEN [i |-> i, pcnt |-> pcnt, c |-> c]
    ELSE IF raw[i + 1] = "\\"
    THEN argumentEnd(raw, IF i + 1 < Len(raw) THEN i + 2 ELSE i + 1, pcnt, "\\")
    ELSE IF raw[i + 1] = "("
    THEN argumentEnd(raw, i + 1, pcnt + 1, "(")
    ELSE IF raw[i + 1] = ")"
    THEN IF pcnt = 1 THEN [i |-> i + 1, pcnt |-> 0, c |-> ")"]
         ELSE argumentEnd(raw, i + 1, pcnt - 1, ")")
    ELSE argumentEnd(raw, i + 1, pcnt, raw[i + 1])

\* What compile() returns: { selector, tasks, action, pseudo }, and raw, which
\* entryPoint() adds.  A task is [op, arg].  action <<>>, pseudo -1 and a raw
\* that is Undefined stand for properties that are not set; tasks <<>> for no
\* tasks property.
Compiled(selector, tasks, action, pseudo) ==
    [selector |-> selector, tasks |-> tasks, action |-> action, pseudo |-> pseudo,
     raw |-> Undefined]

RECURSIVE compile(_, _, _)

\* compileConditionalSelector() with r = compile(s)
compileCondition(r) == IF r.ok THEN Done(SelectorArg(r.v), r.map) ELSE Fail(r.map)

\* compileConditionalSelector(s)
compileConditionalSelector(s, map) ==
    compileCondition(compile(IF reNeedScope(s)
                             THEN <<":", "s", "c", "o", "p", "e", " ">> \o s
                             ELSE s,
                             FALSE, map))

\* compileNotSelector(s)
compileNotSelector(s, map) ==
    IF cssSelectorType(s) = 0 THEN compileConditionalSelector(s, map) ELSE Fail(map)

\* compileArgument.get(operator)(s)
compileArgument(operator, s, map) ==
    CASE operator \in {OpHas, OpIf, OpIfNot} -> compileConditionalSelector(s, map)
      [] operator = OpHasText -> compileText(s, map)
      [] operator \in {OpMatchesCss, OpMatchesCssAfter, OpMatchesCssBefore}
            -> compileCSSDeclaration(s, map)
      [] operator = OpMinTextLength -> compileInteger(s, <<"0">>, MaxInteger, map)
      [] operator = OpNot -> compileNotSelector(s, map)
      [] operator = OpRemove -> compileRemoveSelector(s, map)
      [] operator = OpSpath -> compileSpathExpression(s, map)
      [] operator = OpStyle -> compileStyleProperties(s, map)
      [] operator = OpUpward -> compileUpwardArgument(s, map)
      [] operator = OpWatchAttr -> compileAttrList(s, map)
      [] operator = OpXpath -> compileXpathExpression(s, map)

\* Lines 1530-1539 of compile(), with pos = cssPseudoSelector(prefix), or -1
\* for an empty prefix.
compilePseudo(root, tasks, action, prefix, pos, map) ==
    IF pos # -1 /\ ~root THEN Fail(map)
    ELSE Done(Compiled(prefix, tasks, action, pos), map)

\* Lines 1513-1528 of compile()
compileOut(root, tasks, action, prefix, map) ==
    IF action # <<>> /\ Len(tasks) > 1 /\ action = <<"s", "t", "y", "l", "e">>
    THEN Fail(map)
    ELSE compilePseudo(root, tasks, action, prefix,
                       IF prefix # <<>> THEN cssPseudoSelector(prefix) ELSE -1, map)

\* Lines 1500-1510 of compile(): a prefix that is no CSS selector becomes a
\* leading :spath task, outside the root task list only.
compileSibling(root, tasks, action, prefix, map) ==
    IF cssSelectorType(prefix) = 0
    THEN IF \/ root
            \/ ~reIsSiblingSelector(prefix)
            \/ ~compileSpathExpression(prefix, map).ok
         THEN Fail(map)
         ELSE compileOut(root, <<[op |-> OpSpath, arg |-> StringArg(prefix)]>> \o tasks,
                         action, <<>>, map)
    ELSE compileOut(root, tasks, action, prefix, map)

\* Lines 1496-1499 of compile()
compilePrefix(root, tasks, action, prefix, map) ==
    IF prefix = <<>> THEN compileOut(root, tasks, action, prefix, map)
    ELSE compileSibling(root, tasks, action,
                        IF reIsDanglingSelector(prefix) /\ tasks # <<>>
                        THEN prefix \o <<" ", "*">>
                        ELSE prefix,
                        map)

\* Lines 1486-1489 of compile(), with spath what is left after the last
\* operator, compiled.
compileTail(root, st, spath) ==
    IF st.action # <<>> \/ ~spath.ok THEN Fail(st.map)
    ELSE compilePrefix(root, Append(st.tasks, [op |-> OpSpath, arg |-> spath.v]),
                       st.action, st.prefix, st.map)

\* Lines 1481-1539: what compile() does once its loop is left.
\* st holds the locals: i, tasks, prefix, opPrefixBeg, action, and the map.
compileEnd(raw, root, st) ==
    IF st.tasks # <<>> /\ st.opPrefixBeg < Len(raw)
    THEN compileTail(root, st,
                     compileSpathExpression(jsSlice(raw, st.opPrefixBeg, Len(raw)), st.map))
    ELSE compilePrefix(root, st.tasks, st.action,
                       IF st.tasks = <<>> THEN raw ELSE st.prefix, st.map)

RECURSIVE compileLoop(_, _, _)

\* Lines 1471-1478 of compile() without the test of `action` of line 1471: a
\* task may follow an action operator.
compilePushAfterAction(raw, root, st, opNameBeg, i, operator, args, tasks) ==
    IF operator \in actionOperators /\ ~root THEN Fail(args.map)
    ELSE compileLoop(raw, root,
             [i |-> i,
              tasks |-> Append(tasks, [op |-> operator, arg |-> args.v]),
              prefix |-> IF st.opPrefixBeg = 0 THEN jsSlice(raw, 0, opNameBeg) ELSE st.prefix,
              opPrefixBeg |-> i,
              action |-> IF operator \in actionOperators THEN Tail(operator) ELSE st.action,
              map |-> args.map])

\* Lines 1471-1478 of compile(): the operator becomes a task.  With i = n the
\* next round finds no operator and leaves the loop as line 1478 does.
compilePush(raw, root, st, opNameBeg, i, operator, args, tasks) ==
    IF st.action # <<>> THEN Fail(args.map)
    ELSE IF operator \in actionOperators /\ ~root THEN Fail(args.map)
    ELSE compileLoop(raw, root,
             [i |-> i,
              tasks |-> Append(tasks, [op |-> operator, arg |-> args.v]),
              prefix |-> IF st.opPrefixBeg = 0 THEN jsSlice(raw, 0, opNameBeg) ELSE st.prefix,
              opPrefixBeg |-> i,
              action |-> IF operator \in actionOperators THEN Tail(operator) ELSE st.action,
              map |-> args.map])

\* Lines 1464-1469 of compile(): what stands between two operators becomes a
\* :spath task.
compileGap(raw, root, st, opNameBeg, i, operator, args, spath) ==
    IF st.action # <<>> \/ ~spath.ok THEN Fail(args.map)
    ELSE compilePush(raw, root, st, opNameBeg, i, operator, args,
                     Append(st.tasks, [op |-> OpSpath, arg |-> spath.v]))

\* Lines 1460-1470 of compile(), with args the compiled argument
compileTask(raw, root, st, opNameBeg, i, operator, args) ==
    IF ~args.ok THEN Fail(args.map)
    ELSE IF st.opPrefixBeg # 0 /\ opNameBeg # st.opPrefixBeg
    THEN compileGap(raw, root, st, opNameBeg, i, operator, args,
                    compileSpathExpression(jsSlice(raw, st.opPrefixBeg, opNameBeg),
                                           args.map))
    ELSE compilePush(raw, root, st, opNameBeg, i, operator, args, st.tasks)

\* Lines 1452-1459 of compile()
compileOperator(raw, root, st, opNameBeg, i, operator, s) ==
    compileTask(raw, root, st, opNameBeg, i, operator,
                compileArgument(operator, s, st.map))

\* Lines 1444-1450 of compile(), with e what the scan for the closing
\* parenthesis found
compileParens(raw, root, st, opNameBeg, opNameEnd, e) ==
    IF e.pcnt # 0 /\ e.c # ")" THEN Fail(st.map)
    ELSE IF cssSelectorType(jsSlice(raw, opNameBeg, e.i)) = 1
    THEN compileLoop(raw, root, [st EXCEPT !.i = e.i])
    ELSE compileOperator(raw, root, st, opNameBeg, e.i,
                         normalizedOperators(jsSlice(raw, opNameBeg, opNameEnd)),
                         jsSlice(raw, opNameEnd + 1, e.i - 1))

\* Lines 1423-1441 of compile()
compileName(raw, root, st, opNameBeg, opNameEnd) ==
    compileParens(raw, root, st, opNameBeg, opNameEnd,
                  argumentEnd(raw, opNameEnd + 1, 1, ":"))

\* Lines 1415-1422 of compile(), with K the places of raw from i on where an
\* operator starts
compileFound(raw, root, st, K) ==
    IF K = {} THEN compileEnd(raw, root, st)
    ELSE compileName(raw, root, st, Min(K),
             Min(K) + Len(reProceduralOperator(jsSlice(raw, Min(K) + 1, Len(raw)))))

\* Lines 1412-1479: the loop of compile(), one operator per round.
compileLoop(raw, root, st) ==
    compileFound(raw, root, st,
        {k \in st.i..(Len(raw) - 1) :
            raw[k + 1] = ":" /\ reProceduralOperator(jsSlice(raw, k + 1, Len(raw))) # <<>>})

\* compile(raw, root)
compile(raw, root, map) ==
    IF raw = <<>> THEN Fail(map)
    ELSE compileLoop(raw, root, [i |-> 0, tasks |-> <<>>, prefix |-> <<>>,
                                 opPrefixBeg |-> 0, action |-> <<>>, map |-> map])

\* pieces.join(sep)
RECURSIVE join(_, _)
join(pieces, sep) ==
    IF pieces = <<>> THEN <<>>
    ELSE IF Len(pieces) = 1 THEN pieces[1]
    ELSE pieces[1] \o sep \o join(Tail(pieces), sep)

\* `/${re}/${flags}`, or for a regex kept as one string, the text it was
\* written as if regexToRawValue knows it, else `/${re}/`.
regexText(arg, map) ==
    IF arg.kind = "regex" THEN <<"/">> \o arg.s \o <<"/">> \o arg.flags
    ELSE IF arg.s \in DOMAIN map THEN map[arg.s]
    ELSE <<"/">> \o arg.s \o <<"/">>

\* `${task[1]}` for the arguments that decompile() prints as they are.
argText(arg) ==
    CASE arg.kind = "string" -> arg.s
      [] arg.kind = "number" -> arg.digits
      [] arg.kind = "list" -> join(arg.items, <<",">>)

RECURSIVE decompile(_, _)

\* One round of the loop of decompile(): what a task adds to raw.
taskText(task, map) ==
    CASE task.op \in {OpHas, OpIf}
            -> <<":", "h", "a", "s", "(">> \o decompile(task.arg.c, map) \o <<")">>
      [] task.op = OpHasText
            -> OpHasText \o <<"(">> \o regexText(task.arg, map) \o <<")">>
      [] task.op \in {OpMatchesCss, OpMatchesCssAfter, OpMatchesCssBefore}
            -> task.op \o <<"(">> \o task.arg.name \o <<":", " ">>
                  \o regexText(task.arg.value, map) \o <<")">>
      [] task.op \in {OpNot, OpIfNot}
            -> <<":", "n", "o", "t", "(">> \o decompile(task.arg.c, map) \o <<")">>
      [] task.op = OpSpath -> task.arg.s
      [] task.op \in {OpMinTextLength, OpRemove, OpStyle, OpUpward, OpWatchAttr, OpXpath}
            -> task.op \o <<"(">> \o argText(task.arg) \o <<")">>

\* decompile(compiled)
decompile(compiled, map) ==
    compiled.selector
        \o join([k \in 1..Len(compiled.tasks) |-> taskText(compiled.tasks[k], map)], <<>>)

\* Lines 1544-1547 of entryPoint()
compileRaw(r) ==
    IF r.ok THEN Done([r.v EXCEPT !.raw = Str(decompile(r.v, r.map))], r.map) ELSE r

\* compileProceduralSelector(raw): the entryPoint of lines 1542-1548.
compileProceduralSelector(raw, map) == compileRaw(compile(raw, TRUE, map))

\* The decimal digits of n >= 0
RECURSIVE toDigits(_)
toDigits(n) ==
    IF n < 10 THEN <<DigitChars[n + 1]>>
    ELSE toDigits(n \div 10) \o <<DigitChars[(n % 10) + 1]>>

\* JSON.stringify(s) for a string s of the characters of the model's lines
RECURSIVE jsonEscape(_)
jsonEscape(s) ==
    IF s = <<>> THEN <<>>
    ELSE IF s[1] \in {"\"", "\\"} THEN <<"\\", s[1]>> \o jsonEscape(Tail(s))
    ELSE IF s[1] = "\t" THEN <<"\\", "t">> \o jsonEscape(Tail(s))
    ELSE IF s[1] = "\n" THEN <<"\\", "n">> \o jsonEscape(Tail(s))
    ELSE IF s[1] = "\r" THEN <<"\\", "r">> \o jsonEscape(Tail(s))
    ELSE <<s[1]>> \o jsonEscape(Tail(s))

jsonString(s) == <<"\"">> \o jsonEscape(s) \o <<"\"">>

jsonKey(name) == jsonString(name) \o <<":">>

RECURSIVE jsonCompiled(_)

\* JSON.stringify of the argument of a task
jsonArg(arg) ==
    CASE arg.kind = "string" -> jsonString(arg.s)
      [] arg.kind = "regex"
            -> <<"[">> \o jsonString(arg.s) \o <<",">> \o jsonString(arg.flags) \o <<"]">>
      [] arg.kind = "decl"
            -> <<"{">> \o jsonKey(<<"n", "a", "m", "e">>) \o jsonString(arg.name)
                  \o <<",">> \o jsonKey(<<"v", "a", "l", "u", "e">>)
                  \o (IF arg.value.kind = "regex"
                      THEN <<"[">> \o jsonString(arg.value.s) \o <<",">>
                              \o jsonString(arg.value.flags) \o <<"]">>
                      ELSE jsonString(arg.value.s))
                  \o <<"}">>
      [] arg.kind = "number" -> arg.digits
      [] arg.kind = "list"
            -> <<"[">> \o join([k \in 1..Len(arg.items) |-> jsonString(arg.items[k])], <<",">>)
                  \o <<"]">>
      [] arg.kind = "selector" -> jsonCompiled(arg.c)

jsonTask(task) == <<"[">> \o jsonString(task.op) \o <<",">> \o jsonArg(task.arg) \o <<"]">>

\* JSON.stringify(compiled): the properties that are set, in the order in
\* which compile() and entryPoint() set them.
jsonCompiled(c) ==
    <<"{">> \o jsonKey(<<"s", "e", "l", "e", "c", "t", "o", "r">>) \o jsonString(c.selector)
        \o (IF c.tasks = <<>> THEN <<>>
            ELSE <<",">> \o jsonKey(<<"t", "a", "s", "k", "s">>) \o <<"[">>
                    \o join([k \in 1..Len(c.tasks) |-> jsonTask(c.tasks[k])], <<",">>)
                    \o <<"]">>)
        \o (IF c.action = <<>> THEN <<>>
            ELSE <<",">> \o jsonKey(<<"a", "c", "t", "i", "o", "n">>) \o jsonString(c.action))
        \o (IF c.pseudo = -1 THEN <<>>
            ELSE <<",">> \o jsonKey(<<"p", "s", "e", "u", "d", "o">>) \o toDigits(c.pseudo))
        \o (IF ~c.raw.defined THEN <<>>
            ELSE <<",">> \o jsonKey(<<"r", "a", "w">>) \o jsonString(c.raw.text))
        \o <<"}">>

\* The first position from k on that holds no whitespace (Len(s) + 1 if none)
RECURSIVE skipSpaces(_, _)
skipSpaces(s, k) ==
    IF k <= Len(s) /\ s[k] \in WhiteSpace THEN skipSpaces(s, k + 1) ELSE k

\* /^\s*remove:\s*true[; ]*$/.test(style)
reRemoveTrue(style) ==
    LET a == skipSpaces(style, 1)
        b == skipSpaces(style, a + 7)
    IN  /\ matchAt(style, a, <<"r", "e", "m", "o", "v", "e", ":">>)
        /\ matchAt(style, b, <<"t", "r", "u", "e">>)
        /\ \A k \in (b + 4)..Len(style) : style[k] \in {";", " "}

\* /display\s*:\s*none\s*!important;?$/.test(style)
reDisplayNone(style) ==
    \E k \in 1..Len(style) :
        LET a == skipSpaces(style, k + 7)
            b == skipSpaces(style, a + 1)
            c == skipSpaces(style, b + 4)
            important == <<"!", "i", "m", "p", "o", "r", "t", "a", "n", "t">>
        IN  /\ matchAt(style, k, <<"d", "i", "s", "p", "l", "a", "y">>)
            /\ matchAt(style, a, <<":">>)
            /\ matchAt(style, b, <<"n", "o", "n", "e">>)
            /\ matchAt(style, c, important)
            /\ SubSeq(style, c + 10, Len(style)) \in {<<>>, <<";">>}

\* Lines 1086-1094 of translateAdguardCSSInjectionFilter()
adguardStyle(selector, style) ==
    IF reRemoveTrue(style) THEN selector \o OpRemove \o <<"(", ")">>
    ELSE IF reDisplayNone(style) THEN selector
    ELSE selector \o OpStyle \o <<"(">> \o style \o <<")">>

\* The match of line 1080 from the `{` on, with b the place of the first `}`
adguardClose(selector, rest, b) ==
    IF b < 1 \/ trim(jsSlice(rest, b + 1, Len(rest))) # <<>> THEN <<>>
    ELSE adguardStyle(selector, trim(jsSlice(rest, 0, b)))

\* The match of line 1080, with a the place of the first `{`
adguardOpen(suffix, a) ==
    IF a < 1 THEN <<>>
    ELSE adguardClose(trim(jsSlice(suffix, 0, a)), jsSlice(suffix, a + 1, Len(suffix)),
                      indexOf(jsSlice(suffix, a + 1, Len(suffix)), "}"))

\* translateAdguardCSSInjectionFilter(suffix); the match is
\*   /^([^{]+)\{([^}]+)\}\s*$/
translateAdguardCSSInjectionFilter(suffix) == adguardOpen(suffix, indexOf(suffix, "{"))

\* A match of reExtendedSyntaxParser that starts at s[k]:
\*   /\[-(?:abp|ext)-([a-z-]+)=(['"])(.+?)\2\]/
extendedSyntaxAt(s, k) ==
    LET n == runLength(s, k + 6, LowerCase \cup {"-"})
        q == k + 6 + n + 1
        J == {j \in (q + 2)..(Len(s) - 1) : s[j] = s[q] /\ s[j + 1] = "]"}
    IN  IF /\ \/ matchAt(s, k, <<"[", "-", "a", "b", "p", "-">>)
              \/ matchAt(s, k, <<"[", "-", "e", "x", "t", "-">>)
           /\ n > 0
           /\ q <= Len(s)
           /\ s[q - 1] = "="
           /\ s[q] \in {"'", "\""}
           /\ J # {}
        THEN [matched |-> TRUE, index |-> k - 1, length |-> Min(J) + 2 - k,
              name |-> SubSeq(s, k + 6, k + 5 + n), value |-> SubSeq(s, q + 1, Min(J) - 1)]
        ELSE [matched |-> FALSE, index |-> -1, length |-> 0, name |-> <<>>, value |-> <<>>]

\* reExtendedSyntax.test(s); the two expressions differ in what they capture
reExtendedSyntax(s) == \E k \in 1..Len(s) : extendedSyntaxAt(s, k).matched

\* reExtendedSyntaxParser.exec(s): the leftmost match
reExtendedSyntaxParser(s) ==
    extendedSyntaxAt(s, Min({k \in 1..Len(s) : extendedSyntaxAt(s, k).matched}
                                \cup {Len(s) + 1}))

\* normalizedExtendedSyntaxOperators.get(name), <<>> for undefined
normalizedExtendedSyntaxOperators(name) ==
    CASE name = <<"c", "o", "n", "t", "a", "i", "n", "s">> -> OpHasText
      [] name = <<"h", "a", "s">> -> OpHas
      [] name = Tail(OpMatchesCss) -> OpMatchesCss
      [] name = Tail(OpMatchesCssAfter) -> OpMatchesCssAfter
      [] name = Tail(OpMatchesCssBefore) -> OpMatchesCssBefore
      [] OTHER -> <<>>

RECURSIVE translateExtendedSyntax(_)

\* Lines 1597-1600: one match is replaced.
translateOperator(raw, matches, operator) ==
    IF operator = <<>> THEN [ok |-> FALSE, raw |-> raw]
    ELSE translateExtendedSyntax(
             jsSlice(raw, 0, matches.index) \o operator \o <<"(">> \o matches.value
                 \o <<")">> \o jsSlice(raw, matches.index + matches.length, Len(raw)))

\* Lines 1595-1597, with matches = reExtendedSyntaxParser.exec(raw)
translateMatch(raw, matches) ==
    IF ~matches.matched THEN [ok |-> TRUE, raw |-> raw]
    ELSE translateOperator(raw, matches, normalizedExtendedSyntaxOperators(matches.name))

\* The loop of lines 1595-1601: every [-ext-name='value'] becomes :name(value).
translateExtendedSyntax(raw) == translateMatch(raw, reExtendedSyntaxParser(raw))

RECURSIVE compileSelector(_, _)

\* Lines 1602 of compileSelector(): the selector is compiled again once its
\* extended syntax is translated.
compileTranslated(p, translated) ==
    IF translated.ok THEN compileSelector(p, translated.raw) ELSE [ok |-> FALSE, p |-> p]

\* Lines 1606-1614 of compileSelector(), with compiled what
\* compileProceduralSelector(raw) returned
compileProcedural(p, compiled) ==
    IF ~compiled.ok
    THEN [ok |-> FALSE, p |-> [p EXCEPT !.regexToRawValue = compiled.map]]
    ELSE [ok |-> TRUE,
          p |-> [p EXCEPT !.regexToRawValue = compiled.map,
                          !.result.pseudoclass =
                              IF compiled.v.pseudo # -1 THEN compiled.v.pseudo ELSE @,
                          !.result.compiled = Str(jsonCompiled(compiled.v))]]

\* Lines 1566-1614 of compileSelector(), with selectorType = cssSelectorType(raw)
compileTyped(p, raw, selectorType) ==
    IF selectorType # 0
    THEN IF reExtendedSyntax(raw)
         THEN compileTranslated(p, translateExtendedSyntax(raw))
         ELSE [ok |-> TRUE,
               p |-> [p EXCEPT !.result.pseudoclass = (selectorType = 3),
                               !.result.compiled = Str(raw)]]
    ELSE compileProcedural(p, compileProceduralSelector(raw, p.regexToRawValue))

\* Lines 1559-1564 of compileSelector(), with raw the translation of a style
\* injection filter, or the selector as it is
compileStyle(p, style, raw) ==
    IF style /\ raw = <<>> THEN [ok |-> FALSE, p |-> p]
    ELSE compileTyped(IF style THEN [p EXCEPT !.result.raw = raw] ELSE p,
                      raw, cssSelectorType(raw))

\* compileSelector(raw, out), with out the parser's result.  The value is the
\* boolean returned and the parser as the call leaves it.
compileSelector(p, raw) ==
    compileStyle(p, hasBits(p.flavorBits, BITFlavorExtStyle),
                 IF hasBits(p.flavorBits, BITFlavorExtStyle)
                 THEN translateAdguardCSSInjectionFilter(raw)
                 ELSE raw)

(***************************************************************************)
(* Extended filters: analyzeExt() and analyzeExtPattern()                  *)
(***************************************************************************)
\* Lines 301-304 of analyzeExtPattern(), with c what compileSelector() returned
extCompiled(c) ==
    IF c.ok THEN c.p ELSE [c.p EXCEPT !.flavorBits = @ \cup BITFlavorUnsupported]

\* analyzeExtPattern() that takes every selector for a cosmetic one.
extCompileCosmetic(p, flavor, selector) ==
    extCompiled(compileSelector([p EXCEPT !.flavorBits = @ \cup BITFlavorExtCosmetic,
                                          !.result.raw = selector],
                                selector))

\* Lines 290-304 of analyzeExtPattern()
extCompile(p, flavor, selector) ==
    extCompiled(compileSelector([p EXCEPT !.flavorBits = @ \cup flavor,
                                          !.result.raw = selector],
                                selector))

\* Lines 274-304 of analyzeExtPattern(), with selector the text of the pattern
extSelector(p, i, selector) ==
    IF selector = <<>>
    THEN [p EXCEPT !.flavorBits = @ \cup BITFlavorUnsupported, !.result.raw = <<>>]
    ELSE IF hasBits(BitsAt(p, i), BITPlus)
            /\ startsWith(selector, <<"+", "j", "s", "(">>)
            /\ endsWith(selector, <<")">>)
    THEN [p EXCEPT !.flavorBits = @ \cup BITFlavorExtScriptlet,
                   !.result.raw = selector,
                   !.result.compiled = Str(jsSlice(selector, 4, Len(selector) - 1))]
    ELSE extCompile(p,
                    IF hasBits(BitsAt(p, i), BITCaret) THEN BITFlavorExtHTML
                    ELSE BITFlavorExtCosmetic,
                    IF hasBits(BitsAt(p, i), BITCaret)
                    THEN jsSlice(selector, 1, Len(selector))
                    ELSE selector)

analyzeExtPattern(p) ==
    extSelector([p EXCEPT !.result.exception = isException(p),
                          !.result.compiled = Undefined,
                          !.result.pseudoclass = FALSE],
                p.spans.patternSpan.i, strFromSpan(p, p.spans.patternSpan))

\* The end of analyzeExt() once the anchor [from, to) is known: lines 209-216
\* for `##`, lines 259-267 otherwise.
extFound(p, from, to, flavorBits) ==
    LET optI == p.spans.leftSpaceSpan.i + p.spans.leftSpaceSpan.l
        q == [p EXCEPT !.spans.optionsSpan = [i |-> optI, l |-> from - optI],
                       !.spans.optionsAnchorSpan = [i |-> from, l |-> to - from],
                       !.spans.patternSpan = [i |-> to, l |-> p.spans.rightSpaceSpan.i - to],
                       !.flavorBits = flavorBits,
                       !.category = CATStaticExtFilter]
    IN  analyzeExtPattern(q)

ExtFail == [ok |-> FALSE, to |-> 0, fb |-> {}]

\* `#@...`: an optional single `@`.
extAt(p, to, end) ==
    IF hasBits(BitsAt(p, to), BITAt)
    THEN IF LenAt(p, to) # 1 \/ to + 3 = end THEN ExtFail
         ELSE [ok |-> TRUE, to |-> to + 3, fb |-> BITFlavorException]
    ELSE [ok |-> TRUE, to |-> to, fb |-> {}]

\* `#$...`, `#$?...`, `#%...`, `#?...`
extKind(p, r, end) ==
    IF ~r.ok THEN ExtFail
    ELSE IF hasBits(BitsAt(p, r.to), BITDollar)
    THEN IF LenAt(p, r.to) # 1 \/ r.to + 3 = end THEN ExtFail
         ELSE IF hasBits(BitsAt(p, r.to + 3), BITQuestion)
         THEN IF LenAt(p, r.to + 3) # 1 \/ r.to + 6 = end THEN ExtFail
              ELSE [ok |-> TRUE, to |-> r.to + 6,
                    fb |-> r.fb \cup BITFlavorExtStyle \cup BITFlavorExtStrong]
         ELSE [ok |-> TRUE, to |-> r.to + 3, fb |-> r.fb \cup BITFlavorExtStyle]
    ELSE IF hasBits(BitsAt(p, r.to), BITPercent \cup BITQuestion)
    THEN IF LenAt(p, r.to) # 1 \/ r.to + 3 = end THEN ExtFail
         ELSE [ok |-> TRUE, to |-> r.to + 3,
               fb |-> r.fb \cup (IF hasBits(BitsAt(p, r.to), BITQuestion)
                                  THEN BITFlavorExtStrong
                                  ELSE BITFlavorUnsupported)]
    ELSE r

\* Lines 200-207 of analyzeExt(): the anchor is a run of two or three `#`.
extHashes(p, from, end) ==
    IF LenAt(p, from) = 2
    THEN IF from + 3 = end \/ hasBits(BitsAt(p, from + 3), BITSpace)
         THEN [ok |-> FALSE, p |-> p, to |-> 0, fb |-> {}]
         ELSE [ok |-> TRUE, p |-> p, to |-> from + 3, fb |-> p.flavorBits]
    ELSE [ok |-> TRUE, p |-> splitSlot(p, from, 2), to |-> from + 3, fb |-> p.flavorBits]

\* Lines 253-258 of analyzeExt(): the `#` that closes the anchor.
extClose(p, r) ==
    IF ~r.ok \/ hasNoBits(BitsAt(p, r.to), BITHash)
    THEN [ok |-> FALSE, p |-> p, to |-> 0, fb |-> {}]
    ELSE [ok |-> TRUE, p |-> IF LenAt(p, r.to) > 1 THEN splitSlot(p, r.to, 1) ELSE p,
          to |-> r.to + 3, fb |-> r.fb]

\* Lines 199-258 of analyzeExt(): where the anchor that starts at from ends.
extAnchor(p, from, end) ==
    IF LenAt(p, from) # 1 THEN extHashes(p, from, end)
    ELSE IF from + 3 = end THEN [ok |-> FALSE, p |-> p, to |-> 0, fb |-> {}]
    ELSE extClose(p, extKind(p, extAt(p, from + 3, end), end))

\* analyzeExt() returns, or goes on with the anchor it found.
extAnchored(from, a) == IF a.ok THEN extFound(a.p, from, a.to, a.fb) ELSE a.p

\* analyzeExt() that takes a run of more than three `#` like a run of three.
analyzeExtLongRun(p, from) ==
    extAnchored(from, extAnchor(p, from, p.spans.rightSpaceSpan.i))

analyzeExt(p, from) ==
    IF LenAt(p, from) > 3 THEN p
    ELSE extAnchored(from, extAnchor(p, from, p.spans.rightSpaceSpan.i))

(***************************************************************************)
(* Network filters                                                         *)
(***************************************************************************)
\* \b after the word character s[e]
wordEndsAt(s, e) == e = Len(s) \/ s[e + 1] \notin WordChars

\* reIsLocalhostRedirect.test(s):
\*   /(?:0\.0\.0\.0|(?:broadcast|local)host|local|ip6-\w+)\b/
reIsLocalhostRedirect(s) ==
    \E k \in 1..Len(s) :
        \/ \E w \in {<<"0", ".", "0", ".", "0", ".", "0">>,
                     <<"b", "r", "o", "a", "d", "c", "a", "s", "t", "h", "o", "s", "t">>,
                     <<"l", "o", "c", "a", "l", "h", "o", "s", "t">>,
                     <<"l", "o", "c", "a", "l">>} :
              matchAt(s, k, w) /\ wordEndsAt(s, k + Len(w) - 1)
        \/ /\ matchAt(s, k, <<"i", "p", "6", "-">>)
           /\ k + 4 <= Len(s)
           /\ s[k + 4] \in WordChars

\* The test `patternIsRegex = ...` of lines 374-377 and 415-418.
looksLikeRegex(p) ==
    LET i == p.spans.patternSpan.i
        l == p.spans.patternSpan.l
    IN  \/ l = 3 /\ LenAt(p, i) > 2
        \/ l > 3 /\ hasBits(BitsAt(p, i + l - 3), BITSlash)

\* Lines 361-378 without the test of lines 368-378: the options are looked for
\* whatever the pattern.
netGuessNoRegex(p, islice) ==
    [p |-> p, islice |-> islice,
     patternStartIsRegex |-> islice < p.spans.optionsAnchorSpan.i
                             /\ hasBits(BitsAt(p, islice), BITSlash),
     patternIsRegex |-> FALSE]

\* Lines 361-378: the first guess of the spans, all of the line up to the
\* comment being pattern, and whether that pattern is a regex.
netGuess(p, islice) ==
    LET patternStartIsRegex ==
            islice < p.spans.optionsAnchorSpan.i /\ hasBits(BitsAt(p, islice), BITSlash)
    IN  [p |-> p, islice |-> islice, patternStartIsRegex |-> patternStartIsRegex,
         patternIsRegex |-> patternStartIsRegex /\ looksLikeRegex(p)]

\* Lines 361-366
netPattern(p, islice) ==
    netGuess([p EXCEPT !.spans.optionsAnchorSpan.i = p.spans.commentSpan.i,
                       !.spans.optionsSpan.i = p.spans.commentSpan.i,
                       !.spans.patternSpan =
                           [i |-> islice, l |-> p.spans.commentSpan.i - islice]],
             islice)

\* Lines 344-359: the exception declarator
netDeclared(p, islice) ==
    IF /\ islice < p.spans.commentSpan.i
       /\ hasBits(BitsAt(p, islice), BITAt)
       /\ LenAt(p, islice) >= 2
    THEN netPattern([(IF LenAt(p, islice) > 2 THEN splitSlot(p, islice, 2) ELSE p)
                        EXCEPT !.spans.exceptionSpan.l = 3,
                               !.flavorBits = @ \cup BITFlavorException],
                    islice + 3)
    ELSE netPattern(p, islice)

\* Lines 340-378: the exception declarator, then the first guess of the spans.
\* islice as written in the source: leftSpaceSpan.i.
netException(p) ==
    netDeclared(SetI(p, "exceptionSpan", p.spans.leftSpaceSpan.l), p.spans.leftSpaceSpan.i)

\* The loop of lines 384-390: back from the options anchor to the last `$`.
RECURSIVE lastDollar(_, _, _, _)
lastDollar(p, i, islice, optionsBits) ==
    IF i - 3 < islice THEN [i |-> i - 3, optionsBits |-> optionsBits]
    ELSE IF hasBits(BitsAt(p, i - 3), BITDollar)
    THEN [i |-> i - 3, optionsBits |-> optionsBits]
    ELSE lastDollar(p, i - 3, islice, optionsBits \cup BitsAt(p, i - 3))

\* Lines 414-420: is the pattern that is left before the options a regex?
netOptionsFound(n, p) ==
    [n EXCEPT !.p = p, !.patternIsRegex = n.patternStartIsRegex /\ looksLikeRegex(p)]

\* Lines 407-413, with i the slot of the options anchor
netOptionSpans(n, p, i, optionsBits) ==
    netOptionsFound(n,
        [p EXCEPT !.spans.patternSpan.l = i - p.spans.patternSpan.i,
                  !.spans.optionsAnchorSpan = [i |-> i, l |-> 3],
                  !.spans.optionsSpan = [i |-> i + 3,
                                         l |-> p.spans.commentSpan.i - (i + 3)],
                  !.optionsBits = optionsBits])

\* Lines 391-406, with d what the loop of lines 384-390 found
netDollars(n, d) ==
    IF d.i < n.islice THEN n
    ELSE IF LenAt(n.p, d.i) > 1
    THEN IF findFirstOdd(n.p, 0, BITHostname \cup BITComma \cup BITAsterisk) = d.i
         THEN netOptionSpans(n,
                  [(IF n.p.interactive THEN markSlices(n.p, d.i, d.i + 3, BITError)
                    ELSE n.p)
                       EXCEPT !.flavorBits = @ \cup BITFlavorError],
                  d.i, d.optionsBits)
         ELSE netOptionSpans(n, splitSlot(n.p, d.i, LenAt(n.p, d.i) - 1),
                             d.i + 3, d.optionsBits)
    ELSE netOptionSpans(n, n.p, d.i, d.optionsBits)

\* Lines 391-420 without the split of a run of `$`: the whole run is the anchor.
netDollarsNoSplit(n, d) ==
    IF d.i < n.islice THEN n ELSE netOptionSpans(n, n.p, d.i, d.optionsBits)

\* Lines 423-426: a regex is remembered in the flavor.
netRegex(n) ==
    IF n.patternIsRegex THEN [n EXCEPT !.p.flavorBits = @ \cup BITFlavorNetRegex] ELSE n

\* The options of lines 380-426 without the split of a run of `$`.
netOptionsAnchorNoSplit(n) ==
    netRegex(IF n.patternIsRegex THEN n
             ELSE netDollarsNoSplit(n, lastDollar(n.p, n.p.spans.optionsAnchorSpan.i,
                                                  n.islice, {})))

\* Lines 380-426: the options, when the pattern is not a regex.
netOptionsAnchor(n) ==
    netRegex(IF n.patternIsRegex THEN n
             ELSE netDollars(n, lastDollar(n.p, n.p.spans.optionsAnchorSpan.i,
                                           n.islice, {})))

\* Lines 438-454: the left anchor.
netLeftAnchor(p) ==
    LET i == p.spans.patternSpan.i
        l == LenAt(p, i)
        p1 == [p EXCEPT !.spans.patternLeftAnchorSpan.l = 3]
        q == IF l > 2 THEN splitSlot(p1, i, 2)
             ELSE [p1 EXCEPT !.spans.patternSpan.l = @ - 3]
    IN  IF p.spans.patternSpan.l # 0 /\ hasBits(BitsAt(p, i), BITPipe)
        THEN [q EXCEPT !.spans.patternSpan.i = @ + 3,
                       !.flavorBits = @ \cup (IF l = 1 THEN BITFlavorNetLeftURLAnchor
                                              ELSE BITFlavorNetLeftHnAnchor)]
        ELSE p

\* Lines 461-493: the right anchor.
netRightAnchor(p) ==
    LET lastPatternSlice == IF p.spans.patternSpan.l > 3
                            THEN p.spans.patternRightAnchorSpan.i - 3
                            ELSE p.spans.patternSpan.i
        bits == BitsAt(p, lastPatternSlice)
        l == LenAt(p, lastPatternSlice)
        p1 == [p EXCEPT !.spans.patternRightAnchorSpan = [i |-> lastPatternSlice, l |-> 3]]
        pipe == IF l > 1
                THEN [splitSlot(p1, lastPatternSlice, l - 1)
                        EXCEPT !.spans.patternRightAnchorSpan.i = @ + 3]
                ELSE [p1 EXCEPT !.spans.patternSpan.l = @ - 3]
    IN  IF p.spans.patternSpan.l = 0 THEN p
        ELSE IF hasBits(bits, BITPipe)
        THEN [pipe EXCEPT !.flavorBits = @ \cup BITFlavorNetRightURLAnchor]
        ELSE IF /\ hasBits(bits, BITCaret)
                /\ l = 1
                /\ hasBits(p.flavorBits, BITFlavorNetLeftHnAnchor)
                /\ skipUntilNot(p, p.spans.patternSpan.i, lastPatternSlice, BITHostname)
                     = lastPatternSlice
        THEN [p1 EXCEPT !.spans.patternSpan.l = @ - 3,
                        !.flavorBits = @ \cup BITFlavorNetRightHnAnchor]
        ELSE p

\* Lines 428-494: the anchors, when the pattern is not a regex.
netAnchors(n) ==
    LET p == [n.p EXCEPT !.spans.patternLeftAnchorSpan.i = n.p.spans.patternSpan.i,
                         !.spans.patternRightAnchorSpan.i = n.p.spans.optionsAnchorSpan.i]
    IN  IF n.patternIsRegex THEN p
        ELSE netRightAnchor(netLeftAnchor(p))

\* The loop of lines 506-512: back from the end of the pattern to its last
\* slice with a space; the bits of the slices passed go to patternBits.
RECURSIVE lastSpace(_, _, _, _)
lastSpace(p, i, j, patternBits) ==
    IF j = 0 THEN [j |-> 0, patternBits |-> patternBits]
    ELSE IF hasBits(BitsAt(p, i + j - 3), BITSpace)
    THEN [j |-> j - 3, patternBits |-> patternBits]
    ELSE lastSpace(p, i, j - 3, patternBits \cup BitsAt(p, i + j - 3))

\* Lines 518-520
netIgnored(p) ==
    IF p.interactive THEN markSlices(p, 0, p.spans.patternSpan.i, BITIgnore) ELSE p

\* Lines 515-517
netLocalhost(p) ==
    IF reIsLocalhostRedirect(p.pattern)
    THEN [p EXCEPT !.flavorBits = @ \cup BITFlavorIgnore]
    ELSE p

\* Lines 512-522, with s what the loop of lines 505-511 found
netLastSpace(p, s) ==
    IF s.j # 0
    THEN netIgnored(netLocalhost(getNetPattern(
             [p EXCEPT !.patternBits = s.patternBits,
                       !.spans.patternSpan.i = @ + s.j + 3,
                       !.spans.patternSpan.l = @ - (s.j + 3)])))
    ELSE [p EXCEPT !.patternBits = s.patternBits]

\* Lines 503-524: a pattern with spaces is the part after the last space.
netSpaces(p) ==
    netLastSpace(p, lastSpace(p, p.spans.patternSpan.i, p.spans.patternSpan.l,
                              p.patternBits))

\* Lines 543-557: a leading wildcard not followed by a pattern token.
netLeadingWildcard(p) ==
    LET i == p.spans.patternSpan.i
        l == p.spans.patternSpan.l
        p1 == [OrBits(p, i, BITIgnore) EXCEPT !.spans.patternSpan = [i |-> i + 3, l |-> l - 3]]
    IN  IF l > 3 /\ hasBits(BitsAt(p, i), BITAsterisk)
               /\ hasNoBits(BitsAt(p, i + 3), BITPatternToken)
        THEN IF p1.spans.patternLeftAnchorSpan.l # 0
             THEN [OrBits(p1, p1.spans.patternLeftAnchorSpan.i, BITIgnore)
                     EXCEPT !.flavorBits = @ \ BITFlavorNetLeftAnchor]
             ELSE p1
        ELSE p

\* Lines 558-579: a trailing wildcard not preceded by a pattern token.
netTrailingWildcard(p) ==
    LET i == p.spans.patternSpan.i
        l == p.spans.patternSpan.l
        p1 == IF hasNoBits(BitsAt(p, i), BITSlash) \/ hasNoBits(BitsAt(p, i + l - 6), BITSlash)
              THEN OrBits(p, i + l - 3, BITIgnore)
              ELSE p
        p2 == [p1 EXCEPT !.spans.patternSpan.l = l - 3]
    IN  IF l > 3 /\ hasBits(BitsAt(p, i + l - 3), BITAsterisk)
               /\ hasNoBits(BitsAt(p, i + l - 6), BITPatternToken)
        THEN IF p2.spans.patternRightAnchorSpan.l # 0
             THEN [OrBits(p2, p2.spans.patternRightAnchorSpan.i, BITIgnore)
                     EXCEPT !.flavorBits = @ \ BITFlavorNetRightAnchor]
             ELSE p2
        ELSE p

\* Lines 580-590: left anchoring of an empty pattern or of a leading wildcard.
netPointlessLeftAnchor(p) ==
    LET i == p.spans.patternSpan.i
        l == p.spans.patternSpan.l
    IN  IF (l = 0 \/ hasBits(BitsAt(p, i), BITAsterisk))
           /\ hasBits(p.flavorBits, BITFlavorNetLeftAnchor)
        THEN [OrBits(p, p.spans.patternLeftAnchorSpan.i, BITIgnore)
                EXCEPT !.flavorBits = @ \ BITFlavorNetLeftAnchor]
        ELSE p

\* Lines 591-601: right anchoring of an empty pattern or of a trailing wildcard.
netPointlessRightAnchor(p) ==
    LET i == p.spans.patternSpan.i
        l == p.spans.patternSpan.l
    IN  IF (l = 0 \/ hasBits(BitsAt(p, i + l - 3), BITAsterisk))
           /\ hasBits(p.flavorBits, BITFlavorNetRightAnchor)
        THEN [OrBits(p, p.spans.patternRightAnchorSpan.i, BITIgnore)
                EXCEPT !.flavorBits = @ \ BITFlavorNetRightAnchor]
        ELSE p

analyzeNet(p) ==
    LET anchored == netAnchors(netOptionsAnchor(netException(p)))
        trimmed == netTrailingWildcard(netLeadingWildcard(netSpaces(anchored)))
    IN  [netPointlessRightAnchor(netPointlessLeftAnchor(trimmed))
            EXCEPT !.category = CATStaticNetFilter]

(***************************************************************************)
(* analyze()                                                               *)
(***************************************************************************)
\* The loop of lines 157-165: the first `#` that follows a space.
RECURSIVE inlineComment(_, _)
inlineComment(p, hashSlot) ==
    IF hashSlot = -1 THEN p
    ELSE IF hasBits(BitsAt(p, hashSlot - 3), BITSpace)
    THEN [p EXCEPT !.spans.commentSpan =
                      [i |-> hashSlot - 3, l |-> p.spans.rightSpaceSpan.i - hashSlot]]
    ELSE inlineComment(p, findFirstMatch(p, hashSlot + 6, BITHash))

\* Lines 151-171 of analyze(): what analyzeExt() took is an extended filter,
\* anything else is a network filter, with an inline comment if a `#`
\* follows a space.
analyzeHash(ext, hashSlot) ==
    IF ext.category = CATStaticExtFilter THEN ext
    ELSE analyzeNet(IF hasBits(ext.allBits, BITSpace)
                    THEN inlineComment(ext, hashSlot)
                    ELSE ext)

\* Lines 137-143 of analyze(): a line that starts with `#` is a comment unless
\* analyzeExt() took it.
analyzeComment(ext) ==
    IF ext.category = CATStaticExtFilter THEN ext ELSE [ext EXCEPT !.category = CATComment]

\* Lines 145-171 of analyze(), with hashSlot the slot of the first `#`, -1 if
\* there is none
analyzeFilter(p, hashSlot) ==
    IF hasBits(p.allBits, BITHash) /\ hashSlot # -1
    THEN analyzeHash(analyzeExt(p, hashSlot), hashSlot)
    ELSE analyzeNet(p)

\* Lines 131-171 of analyze(), with slot the first slot after the leading
\* whitespace
analyzeFrom(p, slot) ==
    IF slot = p.spans.rightSpaceSpan.i THEN p
    ELSE IF hasBits(BitsAt(p, slot), BITLineComment)
    THEN IF hasBits(BitsAt(p, slot), BITHash)
         THEN analyzeComment(analyzeExt(p, slot))
         ELSE [p EXCEPT !.category = CATComment]
    ELSE analyzeFilter(SetI(p, "commentSpan", p.spans.rightSpaceSpan.i),
                       findFirstMatch(p, slot, BITHash))

\* Lines 129-131 of analyze()
analyzeSliced(p) == analyzeFrom(p, p.spans.leftSpaceSpan.l)

analyze(p0, raw) == analyzeSliced(slice(p0, raw))

(***************************************************************************)
(* analyzeExtra()                                                          *)
(***************************************************************************)
\* analyzeNetExtra() on a regex, after getNetPattern().
extraRegex(p) ==
    IF isBadRegex(p.pattern) THEN markSpan(p, p.spans.patternSpan, BITError) ELSE p

analyzeNetExtra(p) ==
    netOptionsInit(IF patternIsRegex(p) THEN extraRegex(getNetPattern(p))
                   ELSE IF patternIsDubious(p)
                   THEN markSpan(p, p.spans.patternSpan, BITError)
                   ELSE p)

hasOptions(p) == p.spans.optionsSpan.l # 0

\* analyzeExtExtra() after the domain list of the options.
extraUnsupported(p) ==
    IF hasBits(p.flavorBits, BITFlavorUnsupported)
    THEN markSpan(p, p.spans.patternSpan, BITError)
    ELSE p

analyzeExtExtra(p) ==
    extraUnsupported(IF hasOptions(p)
                     THEN analyzeDomainList(p, p.spans.optionsSpan.i,
                              p.spans.optionsSpan.i + p.spans.optionsSpan.l,
                              BITComma, {0, 1})
                     ELSE p)

analyzeExtra(p) ==
    IF p.category = CATStaticExtFilter THEN analyzeExtExtra(p)
    ELSE IF p.category = CATStaticNetFilter THEN analyzeNetExtra(p)
    ELSE p

(***************************************************************************)
(* The caller: a parser is constructed, then lines are loaded and analyzed *)
(***************************************************************************)
\* The characters the lines of the model are made of.
Alphabet == {" ", "#", "@", "$", "|", "*", "/", "a", "^"}
ExtAlphabet == {"#", "@", "$", "?", "%", "a"}

LinesOver(A, n) == UNION {[1..k -> A] : k \in 0..n}

\* A line the caller may analyze first, so that the line under study meets a
\* parser that holds the slices, spans and flavor of an earlier, longer line.
WarmUp == {<<"@", "@", "@", "|", "b", "*", "$", "$", "b", " ", "#", "b">>}

\* What a caller can observe of the parser after analyze().
Observable(p) ==
    [category |-> p.category, flavorBits |-> p.flavorBits, allBits |-> p.allBits,
     patternBits |-> p.patternBits, optionsBits |-> p.optionsBits, spans |-> p.spans,
     slices |-> SubSeq(p.slices, 1, p.spans.eolSpan.i \div 3)]

\* A new parser and the first line: a line of L or a line of WarmUp.
InitWith(L) ==
    /\ parser \in {Parser(b) : b \in BOOLEAN}
    /\ input \in L \cup WarmUp
    /\ lines = 1
    /\ calls = 0
    /\ seen = <<>>

Init == InitWith(LinesOver(Alphabet, MaxLen))

\* parser.analyze(input)
Analyze ==
    /\ calls < MaxCalls
    /\ parser' = analyze(parser, input)
    /\ calls' = calls + 1
    /\ seen' = Append(seen, Observable(parser'))
    /\ UNCHANGED <<input, lines>>

\* After a line of WarmUp the caller goes on to a line of L with the same parser.
NextLine(L) ==
    /\ calls > 0
    /\ input \in WarmUp
    /\ input' \in L
    /\ lines' = lines + 1
    /\ calls' = 0
    /\ seen' = <<>>
    /\ UNCHANGED parser

Next ==
    \/ Analyze
    \/ NextLine(LinesOver(Alphabet, MaxLen))

Spec == Init /\ [][Next]_vars

\* The same caller on lines that hold the characters of the extended-filter anchors.
InitExt == InitWith(LinesOver(ExtAlphabet, MaxExtLen))

NextExt ==
    \/ Analyze
    \/ NextLine(LinesOver(ExtAlphabet, MaxExtLen))

SpecExt == InitExt /\ [][NextExt]_vars

\* Lines that hold selectors, for the runs that follow the map of the selector
\* compiler from one line to the next.
SelLines ==
    {
     \* ##.a
     <<"#", "#", ".", "a">>,
     \* ##.a:has-text(a.b)
     <<"#", "#", ".", "a", ":", "h", "a", "s", "-", "t", "e", "x", "t", "(", "a", ".", "b", ")">>,
     \* ##.a:has-text(/a\.b/)
     <<"#", "#", ".", "a", ":", "h", "a", "s", "-", "t", "e", "x", "t", "(", "/", "a", "\\", ".", "b", "/", ")">>,
     \* ##.a:has-text(/a/)
     <<"#", "#", ".", "a", ":", "h", "a", "s", "-", "t", "e", "x", "t", "(", "/", "a", "/", ")">>,
     \* #@#.a:has-text(a)
     <<"#", "@", "#", ".", "a", ":", "h", "a", "s", "-", "t", "e", "x", "t", "(", "a", ")">>,
     \* ##^a:has-text(a.b)
     <<"#", "#", "^", "a", ":", "h", "a", "s", "-", "t", "e", "x", "t", "(", "a", ".", "b", ")">>,
     \* ##.a:has(.b)
     <<"#", "#", ".", "a", ":", "h", "a", "s", "(", ".", "b", ")">>,
     \* ##.a:matches-css(a: /b/)
     <<"#", "#", ".", "a", ":", "m", "a", "t", "c", "h", "e", "s", "-", "c", "s", "s", "(", "a", ":", " ", "/", "b", "/", ")">>,
     \* ##a[-ext-contains='a.b']
     <<"#", "#", "a", "[", "-", "e", "x", "t", "-", "c", "o", "n", "t", "a", "i", "n", "s", "=", "'", "a", ".", "b", "'", "]">>,
     \* #$#.a { a: b }
     <<"#", "$", "#", ".", "a", " ", "{", " ", "a", ":", " ", "b", " ", "}">>,
     \* ##+js(a)
     <<"#", "#", "+", "j", "s", "(", "a", ")">>,
     \* ##.a::before
     <<"#", "#", ".", "a", ":", ":", "b", "e", "f", "o", "r", "e">>
    }

MaxSelLines == 2      \* most lines of a run over SelLines

InitSel == InitWith(SelLines)

\* The caller goes on to the next line of a list of selectors.
NextSelector ==
    /\ calls > 0
    /\ lines < MaxSelLines
    /\ input' \in SelLines
    /\ lines' = lines + 1
    /\ calls' = 0
    /\ seen' = <<>>
    /\ UNCHANGED parser

\* The caller goes on to the next line with another instance of Parser.  The
\* instances share the module and so the map of its selector compiler.
OtherParser ==
    /\ calls > 0
    /\ lines < MaxSelLines
    /\ input' \in SelLines
    /\ lines' = lines + 1
    /\ calls' = 0
    /\ seen' = <<>>
    /\ \E b \in BOOLEAN :
           parser' = [Parser(b) EXCEPT !.regexToRawValue = parser.regexToRawValue]

NextSel == Analyze \/ NextSelector \/ OtherParser
SpecSel == InitSel /\ [][NextSel]_vars


\* Lines that hold an extended filter whose pattern is made of the pieces of
\* a scriptlet call, of `^` and of a tag name.
PatPieces == {<<"+">>, <<"j", "s", "(">>, <<")">>, <<"^">>, <<"a">>}
PatAnchors == {<<"#", "#">>, <<"#", "@", "#">>, <<"#", "?", "#">>}

MaxPatPieces == 4     \* most pieces of a pattern

RECURSIVE Flatten(_)
Flatten(q) == IF q = <<>> THEN <<>> ELSE Head(q) \o Flatten(Tail(q))

PatLines == {a \o Flatten(q) : a \in PatAnchors, q \in LinesOver(PatPieces, MaxPatPieces)}

InitPat == InitWith(PatLines)

NextPat ==
    \/ Analyze
    \/ NextLine(PatLines)

SpecPat == InitPat /\ [][NextPat]_vars

\* The caller that queries the pattern after analyze(): lines with an
\* uppercase letter, the slashes of a regex, a wildcard and a space.
CaseAlphabet == {"A", "a", "/", "*", " "}

MaxCaseLen == 4     \* longest line of the querying caller

InitCase ==
    /\ parser \in {Parser(b) : b \in BOOLEAN}
    /\ input \in LinesOver(CaseAlphabet, MaxCaseLen)
    /\ lines = 1
    /\ calls = 0
    /\ seen = <<>>

\* parser.getNetPattern()
GetNetPattern ==
    /\ calls > 0
    /\ parser.category = CATStaticNetFilter
    /\ parser' = getNetPattern(parser)
    /\ UNCHANGED <<input, lines, calls, seen>>

\* parser.patternToLowercase()
PatternToLowercase ==
    /\ calls > 0
    /\ parser.category = CATStaticNetFilter
    /\ parser' = patternToLowercase(parser)
    /\ UNCHANGED <<input, lines, calls, seen>>

NextCase ==
    \/ Analyze
    \/ GetNetPattern
    \/ PatternToLowercase

SpecCase == InitCase /\ [][NextCase]_vars


\* The caller that iterates over the tokens of the pattern: lines of letters,
\* digits, wildcards and slashes.
TokenAlphabet == {"a", "1", "*", "/"}

MaxTokenLen == 4        \* longest line of the iterating caller
MaxTokenLength == 2     \* greatest length given to setMaxTokenLength()

InitToken ==
    /\ parser \in {Parser(b) : b \in BOOLEAN}
    /\ input \in LinesOver(TokenAlphabet, MaxTokenLen)
    /\ lines = 1
    /\ calls = 0
    /\ seen = <<>>

\* parser.setMaxTokenLength(l), between two iterations
SetMaxTokenLength ==
    /\ parser.patternTokenIterator.done
    /\ \E l \in 1..MaxTokenLength : parser' = setMaxTokenLength(parser, l)
    /\ UNCHANGED <<input, lines, calls, seen>>

\* The start of `for ( const token of parser.patternTokens() )`
PatternTokens ==
    /\ calls > 0
    /\ parser.category = CATStaticNetFilter
    /\ parser' = tokenIterator(parser)
    /\ UNCHANGED <<input, lines, calls, seen>>

\* One step of the loop: next() of the iterator
TokenNext ==
    /\ calls > 0
    /\ ~parser.patternTokenIterator.done
    /\ parser' = tokenNext(parser)
    /\ UNCHANGED <<input, lines, calls, seen>>

NextToken ==
    \/ Analyze
    \/ SetMaxTokenLength
    \/ PatternTokens
    \/ TokenNext

SpecToken == InitToken /\ [][NextToken]_vars

\* The caller that reads the options of a network filter: lines made of a
\* pattern, `$` and a list of options separated by commas.
OptPieces ==
    {<<"c", "s", "p", "=", "a">>,
     <<"r", "e", "d", "i", "r", "e", "c", "t", "=", "a">>,
     <<"r", "e", "d", "i", "r", "e", "c", "t", "-", "r", "u", "l", "e", "=", "a">>,
     <<"i", "m", "a", "g", "e">>, <<"s", "c", "r", "i", "p", "t">>,
     <<"p", "o", "p", "u", "p">>}
OptHeads == {<<"a", "$">>, <<"@", "@", "a", "$">>}

MaxOptions == 3     \* most options of a line

RECURSIVE JoinOptions(_)
JoinOptions(q) ==
    IF Len(q) = 1 THEN q[1] ELSE q[1] \o <<",">> \o JoinOptions(Tail(q))

OptLines ==
    {h \o JoinOptions(q) : h \in OptHeads,
                           q \in LinesOver(OptPieces, MaxOptions) \ {<<>>}}

InitOpt ==
    /\ parser \in {Parser(b) : b \in BOOLEAN}
    /\ input \in OptLines
    /\ lines = 1
    /\ calls = 0
    /\ seen = <<>>

\* parser.analyzeExtra()
AnalyzeExtra ==
    /\ calls > 0
    /\ parser' = analyzeExtra(parser)
    /\ UNCHANGED <<input, lines, calls, seen>>

\* The start of `for ( const option of parser.netOptions() )`
NetOptions ==
    /\ calls > 0
    /\ parser' = netOptionsInit(parser)
    /\ UNCHANGED <<input, lines, calls, seen>>

\* One step of the loop: next() of the iterator
OptionNext ==
    /\ calls > 0
    /\ ~parser.netOptionsIterator.done
    /\ parser' = netOptionsNext(parser)
    /\ UNCHANGED <<input, lines, calls, seen>>

NextOpt ==
    \/ Analyze
    \/ AnalyzeExtra
    \/ NetOptions
    \/ OptionNext

SpecOpt == InitOpt /\ [][NextOpt]_vars

(***************************************************************************)
(* Properties                                                              *)
(***************************************************************************)
Slots(p) == {3 * k : k \in 0..((p.spans.eolSpan.i \div 3) - 1)}

InSpan(p, n, s) == p.spans[n].i <= s /\ s < p.spans[n].i + p.spans[n].l

RECURSIVE SumOver(_, _)
SumOver(f, S) ==
    IF S = {} THEN 0
    ELSE LET x == CHOOSE y \in S : TRUE IN f[x] + SumOver(f, S \ {x})

SpanLengths(p) == SumOver([n \in SpanNames |-> p.spans[n].l], SpanNames)

SpansPartition(p) ==
    /\ \A s \in Slots(p) : Cardinality({n \in SpanNames : InSpan(p, n, s)}) = 1
    /\ SpanLengths(p) = p.spans.eolSpan.i

Analyzed == calls > 0

\* C1: after analyze() of a line whose category is not None, every slice
\* before the end-of-line sentinel lies in exactly one of the ten spans, and
\* the ten span lengths add up to eolSpan.i.
C1_SpansPartition ==
    (Analyzed /\ parser.category # CATNone) => SpansPartition(parser)

RECURSIVE SumLen(_)
SumLen(sl) == IF sl = <<>> THEN 0 ELSE Head(sl).l + SumLen(Tail(sl))

\* sl holds the slices and then the end-of-line sentinel of a line of n characters.
Contiguous(sl, n) ==
    /\ sl # <<>> => sl[1].o = 0
    /\ \A k \in 1..(Len(sl) - 1) : sl[k].o + sl[k].l = sl[k + 1].o
    /\ SumLen(sl) = n

\* C2: after slice() and after each splitSlot() of an analyze(), the first
\* slice starts at 0, every slice ends where the next one (the end-of-line
\* sentinel included) starts, and the lengths add up to the length of the line.
C2_SlicesContiguous ==
    \A k \in 1..Len(parser.hist) : Contiguous(parser.hist[k], Len(parser.raw))

\* A line on which analyze() split a slice (as "@@@a" does) was analyzed with
\* a parser that had analyzed another line before.
C2_Witness == Analyzed /\ lines > 1 /\ Len(parser.hist) >= 2

\* C3: analyzing the same line again leaves the same observable state as
\* the first analyze() of it did, whatever the parser had analyzed before.
C3_Idempotent == \A k \in 1..Len(seen) : seen[k] = seen[1]

\* The second analyze() of a network filter in which a slice was split, by a
\* parser that had analyzed another line before.
C3_Witness ==
    /\ Len(seen) = 2
    /\ lines > 1
    /\ parser.category = CATStaticNetFilter
    /\ Len(parser.hist) >= 2

IsBlankLine(raw) == \A k \in 1..Len(raw) : raw[k] \in WhiteSpace

\* C5: the category is None exactly for the lines without a non-whitespace
\* character, the empty line included; isBlank() is true for these, and every
\* other line gets one of the three other categories and isBlank() false.
C5_NoneIffBlank ==
    Analyzed =>
        /\ parser.category = CATNone <=> IsBlankLine(input)
        /\ IsBlankLine(input) => isBlank(parser)
        /\ ~IsBlankLine(input) =>
              /\ parser.category \in {CATComment, CATStaticNetFilter, CATStaticExtFilter}
              /\ ~isBlank(parser)

\* What C6 compares: category, flavor, pattern text and options text.
Reading(p) ==
    [category |-> p.category, flavorBits |-> p.flavorBits,
     pattern |-> strFromSpan(p, p.spans.patternSpan),
     netPattern |-> getNetPattern(p).pattern,
     options |-> strFromSpan(p, p.spans.optionsSpan)]

\* C6: a line with whitespace before or after it reads as the line without
\* that whitespace (same category, flavor, pattern text, options text), and
\* the pattern span of a network filter never holds the leading-whitespace slice.
C6_WhitespaceTrimmed ==
    Analyzed =>
        /\ Reading(parser) = Reading(analyze(Parser(parser.interactive),
                                             TrimRight(TrimLeft(input))))
        /\ (parser.category = CATStaticNetFilter /\ parser.spans.leftSpaceSpan.l > 0)
              => ~InSpan(parser, "patternSpan", 0)

\* Number of `@` at the head of s.
RECURSIVE LeadingAts(_)
LeadingAts(s) == IF s # <<>> /\ Head(s) = "@" THEN 1 + LeadingAts(Tail(s)) ELSE 0

\* C7: a network filter is an exception iff its first slice after the leading
\* whitespace is a run of two or more `@`; then exceptionSpan is one slice
\* holding "@@", and the `@` left over are the head of the pattern.
C7_ExceptionIffTwoAts ==
    (Analyzed /\ parser.category = CATStaticNetFilter) =>
        LET k == LeadingAts(TrimLeft(input))
            pattern == strFromSpan(parser, parser.spans.patternSpan)
        IN  /\ hasBits(parser.flavorBits, BITFlavorException) <=> k >= 2
            /\ k >= 2 =>
                  /\ parser.spans.exceptionSpan.l = 3
                  /\ strFromSpan(parser, parser.spans.exceptionSpan) = <<"@", "@">>
                  /\ LeadingAts(pattern) = k - 2

\* The shape C8 names, read off the final pattern span.
RegexShaped(p) ==
    LET i == p.spans.patternSpan.i
        l == p.spans.patternSpan.l
    IN  /\ l > 0
        /\ hasBits(BitsAt(p, i), BITSlash)
        /\ \/ l = 3 /\ LenAt(p, i) > 2
           \/ l > 3 /\ hasBits(BitsAt(p, i + l - 3), BITSlash)

\* C8: a network filter has the NetRegex flavor iff its final pattern span
\* starts with a `/` slice and is either that one slice, longer than 2, or ends
\* with a `/` slice; getNetPattern() is then the text between the two `/`.
C8_RegexIffShaped ==
    (Analyzed /\ parser.category = CATStaticNetFilter) =>
        LET text == strFromSpan(parser, parser.spans.patternSpan)
        IN  /\ hasBits(parser.flavorBits, BITFlavorNetRegex) <=> RegexShaped(parser)
            /\ hasBits(parser.flavorBits, BITFlavorNetRegex) =>
                  getNetPattern(parser).pattern = SubSeq(text, 2, Len(text) - 1)

\* The slots of the slices from the end of the exception prefix to the comment.
ContentSlots(p) ==
    {s \in Slots(p) : /\ p.spans.exceptionSpan.i + p.spans.exceptionSpan.l <= s
                      /\ s < p.spans.commentSpan.i}

\* The text from the exception prefix to the comment has the shape of a regex.
ContentRegexShaped(p) ==
    LET e == p.spans.exceptionSpan.i + p.spans.exceptionSpan.l
        c == p.spans.commentSpan.i
    IN  /\ e < c
        /\ hasBits(BitsAt(p, e), BITSlash)
        /\ \/ c - e = 3 /\ LenAt(p, e) > 2
           \/ c - e > 3 /\ hasBits(BitsAt(p, c - 3), BITSlash)

DollarSlots(p) == {s \in ContentSlots(p) : hasBits(BitsAt(p, s), BITDollar)}

\* The case C9 is about.
OptionsCase(p) ==
    /\ p.category = CATStaticNetFilter
    /\ ~ContentRegexShaped(p)
    /\ hasNoBits(p.flavorBits, BITFlavorError)

\* The options anchor is the last `$` before the comment, one slice of length
\* 1; the `$` before it in the same run are in the pattern span; the options
\* span runs from the anchor to the comment.
AnchorAtLastDollar(p) ==
    LET a == p.spans.optionsAnchorSpan
        d == Max(DollarSlots(p))
    IN  /\ a = [i |-> d, l |-> 3]
        /\ LenAt(p, d) = 1
        /\ (d - 3 \in DollarSlots(p)) => InSpan(p, "patternSpan", d - 3)
        /\ p.spans.optionsSpan = [i |-> d + 3, l |-> p.spans.commentSpan.i - (d + 3)]

NoOptions(p) == p.spans.optionsAnchorSpan.l = 0 /\ p.spans.optionsSpan.l = 0

PatternEnd(p) == p.spans.patternSpan.i + p.spans.patternSpan.l

\* C9 as stated: for a network filter that is not regex-shaped and has no
\* Error flavor, the options anchor is the last `$`, one slice of length 1, the
\* options span is all between the anchor and the comment, and the pattern
\* span ends right before the anchor; without a `$` there are no options.
C9_AsStated ==
    (Analyzed /\ OptionsCase(parser)) =>
        IF DollarSlots(parser) # {}
        THEN /\ AnchorAtLastDollar(parser)
             /\ PatternEnd(parser) = parser.spans.optionsAnchorSpan.i
        ELSE NoOptions(parser)

\* C9, amended: as stated, but the pattern span ends at or before the anchor,
\* and the slices between its end and the anchor are the right anchor of the
\* pattern or `*` slices.
C9_OptionsAnchor ==
    (Analyzed /\ OptionsCase(parser)) =>
        IF DollarSlots(parser) # {}
        THEN /\ AnchorAtLastDollar(parser)
             /\ PatternEnd(parser) <= parser.spans.optionsAnchorSpan.i
             /\ \A s \in Slots(parser) :
                   (PatternEnd(parser) <= s /\ s < parser.spans.optionsAnchorSpan.i)
                      => \/ InSpan(parser, "patternRightAnchorSpan", s)
                         \/ hasBits(BitsAt(parser, s), BITAsterisk)
        ELSE NoOptions(parser)

\* A line with a run of two `$` that is split, after which the last `$` is
\* the options anchor and the one before it stays in the pattern (as in "/$$a").
C9_Witness ==
    /\ Analyzed
    /\ OptionsCase(parser)
    /\ DollarSlots(parser) # {}
    /\ (Max(DollarSlots(parser)) - 3) \in DollarSlots(parser)
    /\ parser.spans.optionsSpan.l > 0

\* C4: when analyze() of a line starts, the map of the selector compiler holds
\* nothing recorded while an earlier line was analyzed, and the result of a
\* line is the one a parser that has analyzed nothing gives, whatever lines
\* were analyzed before by this or another instance of Parser.
C4_HistoryIndependent ==
    /\ (calls = 0 /\ lines > 1) => parser.regexToRawValue = EmptyMap
    /\ Analyzed => parser.result = analyze(Parser(parser.interactive), input).result

\* The texts of  #@?(\$\??|%|\?)?#
ExtAnchors ==
    {<<"#", "#">>, <<"#", "@", "#">>,
     <<"#", "$", "#">>, <<"#", "@", "$", "#">>,
     <<"#", "$", "?", "#">>, <<"#", "@", "$", "?", "#">>,
     <<"#", "%", "#">>, <<"#", "@", "%", "#">>,
     <<"#", "?", "#">>, <<"#", "@", "?", "#">>}

Chars(s) == {s[k] : k \in 1..Len(s)}

\* C10: the options anchor of an extended filter reads as one of the texts of
\* #@?(\$\??|%|\?)?#; the run of `#` it starts with is no longer than three
\* and the third `#` of a run of three starts the pattern; Exception is set
\* iff the anchor holds `@`, ExtStyle iff `$`, ExtStrong iff `?`, and
\* Unsupported is set if it holds `%`.
C10_ExtAnchor ==
    (Analyzed /\ parser.category = CATStaticExtFilter) =>
        LET a == parser.spans.optionsAnchorSpan
            anchor == strFromSpan(parser, a)
            o == OrgAt(parser, a.i)
            run == runLength(input, o + 1, {"#"})
        IN  /\ anchor \in ExtAnchors
            /\ parser.spans.patternSpan.i = a.i + a.l
            /\ o = 0 \/ input[o] # "#"
            /\ run <= 3
            /\ run = 3 => /\ anchor = <<"#", "#">>
                          /\ startsWith(strFromSpan(parser, parser.spans.patternSpan), <<"#">>)
            /\ hasBits(parser.flavorBits, BITFlavorException) <=> "@" \in Chars(anchor)
            /\ hasBits(parser.flavorBits, BITFlavorExtStyle) <=> "$" \in Chars(anchor)
            /\ hasBits(parser.flavorBits, BITFlavorExtStrong) <=> "?" \in Chars(anchor)
            /\ "%" \in Chars(anchor) => hasBits(parser.flavorBits, BITFlavorUnsupported)

\* The exception to a style filter "#@$#a" was analyzed.
C10_Witness ==
    /\ Analyzed
    /\ parser.category = CATStaticExtFilter
    /\ strFromSpan(parser, parser.spans.optionsAnchorSpan) = <<"#", "@", "$", "#">>
    /\ parser.spans.patternSpan.l > 0

\* C11: an extended filter with a pattern has exactly one of the flavors
\* ExtScriptlet, ExtHTML, ExtCosmetic: ExtScriptlet iff the pattern starts with
\* `+js(` and ends with `)`, the compiled value then being the text between
\* the parentheses; else ExtHTML iff the pattern starts with `^`; else
\* ExtCosmetic.  Without a pattern none of the three is set and Unsupported is.
C11_ExtFlavor ==
    (Analyzed /\ parser.category = CATStaticExtFilter) =>
        LET text == strFromSpan(parser, parser.spans.patternSpan)
            f == parser.flavorBits
            scriptlet == startsWith(text, <<"+", "j", "s", "(">>) /\ endsWith(text, <<")">>)
        IN  IF text = <<>>
            THEN /\ hasNoBits(f, BITFlavorExtScriptlet \cup BITFlavorExtHTML
                                     \cup BITFlavorExtCosmetic)
                 /\ hasBits(f, BITFlavorUnsupported)
            ELSE /\ hasBits(f, BITFlavorExtScriptlet) <=> scriptlet
                 /\ hasBits(f, BITFlavorExtHTML) <=> (~scriptlet /\ text[1] = "^")
                 /\ hasBits(f, BITFlavorExtCosmetic) <=> (~scriptlet /\ text[1] # "^")
                 /\ scriptlet => parser.result.compiled = Str(SubSeq(text, 5, Len(text) - 1))

\* The HTML filter "##^a" was analyzed.
C11_Witness ==
    /\ Analyzed
    /\ parser.category = CATStaticExtFilter
    /\ strFromSpan(parser, parser.spans.patternSpan) = <<"^", "a">>
    /\ hasBits(parser.flavorBits, BITFlavorExtHTML)

\* The raw text under the pattern span, without the two enclosing `/` when
\* the filter is a regex.
SpanPattern(p) ==
    LET text == strFromSpan(p, p.spans.patternSpan)
    IN  IF hasBits(p.flavorBits, BITFlavorNetRegex)
        THEN SubSeq(text, 2, Len(text) - 1)
        ELSE text

\* C16: after analyze() of a network filter getNetPattern() returns the text
\* under the final pattern span (without the enclosing slashes of a regex),
\* also when the pattern held a space and a pointless wildcard was removed.
C16_NetPatternIsSpanText ==
    (Analyzed /\ parser.category = CATStaticNetFilter) =>
        getNetPattern(parser).pattern = SpanPattern(parser)

\* C17: after analyze() of a network filter patternIsMatchAll() is true iff
\* the final pattern span is empty or is one slice made of `*` only.
C17_MatchAllIffWildcard ==
    (Analyzed /\ parser.category = CATStaticNetFilter) =>
        (patternIsMatchAll(parser)
            <=> \/ parser.spans.patternSpan.l = 0
                \/ /\ parser.spans.patternSpan.l = 3
                   /\ Chars(strFromSpan(parser, parser.spans.patternSpan)) = {"*"})

\* C19: after analyze() by a parser that is not interactive no slice of the
\* line carries the IGNORE or the ERROR bit.
C19_NoOverlayBits ==
    (Analyzed /\ ~parser.interactive) =>
        \A s \in Slots(parser) : hasNoBits(BitsAt(parser, s), BITIgnore \cup BITError)

\* The slots of the slices between the left anchor of the pattern and slot e.
BeforeSlot(p, e) ==
    {s \in Slots(p) : /\ p.spans.patternLeftAnchorSpan.i + p.spans.patternLeftAnchorSpan.l <= s
                      /\ s < e}

\* C20: a network filter has the NetRightHnAnchor flavor only if its pattern
\* ended with a single `^`, the pattern is anchored on the left with `||`, and
\* every slice of the pattern before the `^`, the first one included, carries
\* HOSTNAME bits only.
C20_RightHnAnchor ==
    (/\ Analyzed
     /\ parser.category = CATStaticNetFilter
     /\ hasBits(parser.flavorBits, BITFlavorNetRightHnAnchor)) =>
        LET a == parser.spans.patternRightAnchorSpan
        IN  /\ a.l = 3
            /\ strFromSpan(parser, a) = <<"^">>
            /\ strFromSpan(parser, parser.spans.patternLeftAnchorSpan) = <<"|", "|">>
            /\ \A s \in BeforeSlot(parser, a.i) : BitsAt(parser, s) \subseteq BITHostname

\* The slices of p up to and including the end-of-line sentinel.
WithSentinel(p) == SubSeq(p.slices, 1, (p.spans.eolSpan.i \div 3) + 1)

\* q is p after patternToLowercase(): raw kept its length, the characters
\* outside the pattern span are those of p, the slices describe raw and no
\* slice of the pattern carries the uppercase bit.
LowercaseFrame(p, q) ==
    /\ Len(q.raw) = Len(p.raw)
    /\ \A k \in 1..Len(p.raw) :
           (k <= OrgAt(p, p.spans.patternSpan.i)
              \/ k > OrgAt(p, p.spans.patternSpan.i + p.spans.patternSpan.l))
           => q.raw[k] = p.raw[k]
    /\ Contiguous(WithSentinel(q), Len(q.raw))
    /\ \A s \in Slots(q) : InSpan(q, "patternSpan", s) => hasNoBits(BitsAt(q, s), BITUppercase)

\* C18: after analyze() of a network filter and any queries, patternToLowercase()
\* keeps the length of raw, leaves every character outside the pattern span as
\* it was, leaves slices that describe raw, and leaves no pattern slice with
\* the uppercase bit.
C18_LowercaseFrame ==
    (Analyzed /\ parser.category = CATStaticNetFilter)
        => LowercaseFrame(parser, patternToLowercase(parser))

\* The iterator of p holds a token that next() has yielded.
Yielded(p) == ~p.patternTokenIterator.done /\ p.patternTokenIterator.value.token # <<>>

\* The position in raw of the first character of the yielded token, and of
\* the first character after it.
TokenBeg(p) == p.patternTokenIterator.value.pos + OrgAt(p, p.patternTokenIterator.l)
TokenEnd(p) == TokenBeg(p) + Len(p.patternTokenIterator.value.token)

\* The slot of the slice that starts at position o.
SlotAt(p, o) == CHOOSE s \in Slots(p) \cup {p.spans.eolSpan.i} : OrgAt(p, s) = o

TokenChars(t) == \A k \in 1..Len(t) : hasBits(charDescBits(t[k]), BITPatternToken)

\* The yielded token is the text of whole slices of the pattern span.
TokenInPattern(p) ==
    /\ OrgAt(p, p.spans.patternSpan.i) <= TokenBeg(p)
    /\ TokenEnd(p) <= OrgAt(p, p.spans.patternSpan.i + p.spans.patternSpan.l)
    /\ p.patternTokenIterator.value.token = jsSlice(p.raw, TokenBeg(p), TokenEnd(p))

WildcardBefore(p) ==
    /\ SlotAt(p, TokenBeg(p)) > p.spans.patternSpan.i
    /\ hasBits(BitsAt(p, SlotAt(p, TokenBeg(p)) - 3), BITAsterisk)

WildcardAfter(p) ==
    /\ SlotAt(p, TokenEnd(p)) < p.spans.patternSpan.i + p.spans.patternSpan.l
    /\ hasBits(BitsAt(p, SlotAt(p, TokenEnd(p))), BITAsterisk)

\* C15 as stated: every token yielded by patternTokens(), whatever length was
\* given to setMaxTokenLength(), is made of token characters, lies inside the
\* pattern span, and has no wildcard slice before it or after it.
C15_TokensNotWildcardAdjacent ==
    Yielded(parser) =>
        /\ TokenChars(parser.patternTokenIterator.value.token)
        /\ TokenInPattern(parser)
        /\ ~WildcardBefore(parser)
        /\ ~WildcardAfter(parser)

\* C15: every token yielded by patternTokens() is made of token characters,
\* lies inside the pattern span and has no wildcard slice before it; it has a
\* wildcard slice after it only if it is at least as long as the length given
\* to setMaxTokenLength().
C15_TokensPure ==
    Yielded(parser) =>
        /\ TokenChars(parser.patternTokenIterator.value.token)
        /\ TokenInPattern(parser)
        /\ ~WildcardBefore(parser)
        /\ WildcardAfter(parser) =>
               Len(parser.patternTokenIterator.value.token) >= parser.maxTokenLength

\* next() yielded a token of two slices that a wildcard follows, after
\* setMaxTokenLength(2).
C15_Witness ==
    /\ Yielded(parser)
    /\ parser.maxTokenLength = 2
    /\ parser.patternTokenIterator.value.token = <<"a", "1">>
    /\ WildcardAfter(parser)

\* The entries of optSlices that init() wrote for the options of the line.
OptionEntries(p) ==
    SubSeq(p.netOptionsIterator.optSlices, 1, p.netOptionsIterator.writePtr \div 6)

\* The name of the option of entry e: its text from the token to the `=` or
\* to the end of the option.
OptionName(p, e) == jsSlice(p.raw, OrgAt(p, e.ltok), OrgAt(p, e.lval))

CspName == <<"c", "s", "p">>
RedirectNames == {<<"r", "e", "d", "i", "r", "e", "c", "t">>,
                  <<"r", "e", "d", "i", "r", "e", "c", "t", "-", "r", "u", "l", "e">>}
RedirectIds == {OPTTokenRedirect, OPTTokenRedirectRule}

\* The positions of the yielded items whose id is in ids.
YieldedWith(p, ids) ==
    {k \in 1..Len(p.netOptionsIterator.yielded) : p.netOptionsIterator.yielded[k].id \in ids}

\* Every option with a name of names that comes after a yielded item with
\* an id of ids was yielded with the id Invalid.
FurtherInvalid(p, ids, names) ==
    \A j \in YieldedWith(p, ids) :
        \A k \in (j + 1)..Len(p.netOptionsIterator.yielded) :
            OptionName(p, OptionEntries(p)[k]) \in names
                => p.netOptionsIterator.yielded[k].id = OPTTokenInvalid

\* C12: among the items that netOptions() has yielded at most one has the id
\* csp and at most one has an id of redirect or redirect-rule; every csp option
\* after the one yielded as csp, and every redirect or redirect-rule option
\* after the one yielded as such, is yielded with the id Invalid.
C12_OptionUniqueness ==
    /\ Cardinality(YieldedWith(parser, {OPTTokenCsp})) <= 1
    /\ Cardinality(YieldedWith(parser, RedirectIds)) <= 1
    /\ FurtherInvalid(parser, {OPTTokenCsp}, {CspName})
    /\ FurtherInvalid(parser, RedirectIds, RedirectNames)

\* netOptions() yielded a csp option as csp and then a second csp option as
\* Invalid.
C12_Witness ==
    /\ Len(parser.netOptionsIterator.yielded) >= 2
    /\ parser.netOptionsIterator.yielded[1].id = OPTTokenCsp
    /\ parser.netOptionsIterator.yielded[2].id = OPTTokenInvalid
    /\ OptionName(parser, OptionEntries(parser)[2]) = CspName

\* The number of options of p whose name is in names.
OptionsNamed(p, names) ==
    Cardinality({k \in 1..Len(OptionEntries(p)) : OptionName(p, OptionEntries(p)[k]) \in names})

\* The options of p were prepared: p has the Error flavor and is to be discarded.
PreparedWithError(p) ==
    (OptionsNamed(p, {CspName}) > 1 \/ OptionsNamed(p, RedirectNames) > 1)
        => hasError(p) /\ shouldDiscard(p)

\* C13: when the options of a network filter hold more than one csp option or
\* more than one redirect or redirect-rule option, the parser has the Error
\* flavor after analyzeExtra() and after the start of the netOptions()
\* iteration: hasError() and shouldDiscard() are true.
C13_RepeatedOptionIsError ==
    (Analyzed /\ parser.category = CATStaticNetFilter)
        => /\ PreparedWithError(analyzeExtra(parser))
           /\ PreparedWithError(netOptionsInit(parser))

\* The number of options that init() kept as valid network types.
NetworkTypes(p) ==
    Cardinality({k \in 1..Len(OptionEntries(p)) :
                    hasBits(OptionEntries(p)[k].descriptor.flags, OPTNetworkType)})

\* C14: netOptions() yields a redirect or redirect-rule option with its own
\* id only if the options hold exactly one valid network-type option.
C14_RedirectNeedsOneNetworkType ==
    YieldedWith(parser, RedirectIds) # {} => NetworkTypes(parser) = 1

\* The slots of p that hold a `#` slice with a space slice right before it.
CommentHashes(p) ==
    {s \in Slots(p) : s >= 3 /\ hasBits(BitsAt(p, s), BITHash)
                             /\ hasBits(BitsAt(p, s - 3), BITSpace)}

\* The space slice before the first such `#`: where the inline comment starts.
CommentStart(p) == Min(CommentHashes(p)) - 3

\* C21: when a network filter holds a `#` slice right after a space slice,
\* commentSpan starts at that space slice and ends where the right space
\* starts, and no slice from there to the right space belongs to the pattern
\* span or to the options span.
C21_InlineComment ==
    (Analyzed /\ parser.category = CATStaticNetFilter /\ CommentHashes(parser) # {})
        => /\ parser.spans.commentSpan.i = CommentStart(parser)
           /\ parser.spans.commentSpan.i + parser.spans.commentSpan.l
                  = parser.spans.rightSpaceSpan.i
           /\ \A s \in Slots(parser) :
                  (CommentStart(parser) <= s /\ s < parser.spans.rightSpaceSpan.i)
                      => /\ ~InSpan(parser, "patternSpan", s)
                         /\ ~InSpan(parser, "optionsSpan", s)

\* C22: after analyze() of a network filter no slice of the pattern span
\* carries the space bit.
C22_NoSpaceInPattern ==
    (Analyzed /\ parser.category = CATStaticNetFilter)
        => \A s \in Slots(parser) :
               InSpan(parser, "patternSpan", s) => hasNoBits(BitsAt(parser, s), BITSpace)

\* The slice right after the pattern span of p is a `*` and the pattern span
\* begins and ends with `/` as a regex does: a trailing wildcard was taken
\* off the pattern and what is left looks like a regex.
AccidentalRegex(p) ==
    /\ p.spans.patternSpan.l > 0
    /\ PatternEnd(p) < p.spans.eolSpan.i
    /\ hasBits(BitsAt(p, PatternEnd(p)), BITAsterisk)
    /\ hasBits(BitsAt(p, p.spans.patternSpan.i), BITSlash)
    /\ looksLikeRegex(p)

\* C23: a trailing `*` that no pattern token precedes stays in the pattern
\* span when the pattern without it would begin and end with `/`.
C23_NoAccidentalRegex ==
    (Analyzed /\ parser.category = CATStaticNetFilter) => ~AccidentalRegex(parser)

\* The slot of the last `$` slice of p before the comment.
LastDollar(p) == Max(DollarSlots(p))

\* The last run of `$` of p was split: two `$` slices follow each other.
DollarsSplit(p) ==
    LastDollar(p) >= 3 /\ hasBits(BitsAt(p, LastDollar(p) - 3), BITDollar)

\* The last run of `$` of p holds two `$` or more.
LongDollars(p) == DollarsSplit(p) \/ LenAt(p, LastDollar(p)) >= 2

\* The slot where the last run of `$` of p starts.
DollarsStart(p) == IF DollarsSplit(p) THEN LastDollar(p) - 3 ELSE LastDollar(p)

\* Every slice of p before the last run of `$` is whitespace or is of the
\* hostname, comma or asterisk class.
OnlyHostnamesBefore(p) ==
    \A s \in Slots(p) :
        s < DollarsStart(p)
            => hasBits(BitsAt(p, s), BITSpace \cup BITHostname \cup BITComma \cup BITAsterisk)

\* C24: for a network filter that is not regex-shaped and whose last run of `$`
\* holds two `$` or more: when all that precedes the run is whitespace or of
\* the hostname, comma or asterisk class, the filter has the Error flavor and
\* the run is not split; otherwise the run is split and the filter does not
\* have the Error flavor.
C24_AdGuardDollars ==
    (/\ Analyzed
     /\ parser.category = CATStaticNetFilter
     /\ ~ContentRegexShaped(parser)
     /\ DollarSlots(parser) # {}
     /\ LongDollars(parser))
        => IF OnlyHostnamesBefore(parser)
           THEN hasError(parser) /\ ~DollarsSplit(parser)
           ELSE ~hasError(parser) /\ DollarsSplit(parser)

\* netOptions() of the parser yields nothing.
YieldsNothing(p) == netOptionsNext(netOptionsInit(p)).netOptionsIterator.yielded = <<>>

ClassOf(bits) == bits \ (BITIgnore \cup BITError)

\* The places k of the sequence sl of slices followed by the end-of-line
\* sentinel at which two adjacent slices other than the sentinel have the same
\* class.
SameClassPairs(sl) ==
    {k \in 1..(Len(sl) - 2) : ClassOf(sl[k].bits) = ClassOf(sl[k + 1].bits)}

\* C26 as stated: after slice(), after each splitSlot() and at the end of
\* analyze(), two adjacent slices other than the sentinel never have the same
\* class.
C26_AsStated ==
    /\ \A k \in 1..Len(parser.hist) : SameClassPairs(parser.hist[k]) = {}
    /\ Analyzed => SameClassPairs(Used(parser)) = {}

\* C26, amended: after slice() two adjacent slices other than the sentinel
\* never have the same class; each splitSlot() adds one pair of adjacent
\* slices of the same class, a class of `#`, `@`, `$` or `|`, and nothing else
\* does.
C26_AdjacentClassesDiffer ==
    /\ parser.hist # <<>> => SameClassPairs(parser.hist[1]) = {}
    /\ \A k \in 1..Len(parser.hist) : Cardinality(SameClassPairs(parser.hist[k])) = k - 1
    /\ Analyzed =>
          /\ Cardinality(SameClassPairs(Used(parser))) = Len(parser.hist) - 1
          /\ \A k \in SameClassPairs(Used(parser)) :
                ClassOf(parser.slices[k].bits) \in {BITHash, BITAt, BITDollar, BITPipe}

\* A line of several classes in which analyze() split a slice and marked
\* another (as "@@@ a" in an interactive parser does).
C26_Witness ==
    /\ Analyzed
    /\ Len(parser.hist) >= 2
    /\ Len(parser.hist[1]) >= 3
    /\ SameClassPairs(Used(parser)) # {}

(***************************************************************************)
(* The caller that loads cosmetic filters with action operators            *)
(***************************************************************************)
\* The pieces of the selectors: a tag name, the two action operators, two
\* other operators, and the four operators that take a selector, given one
\* with an action.
ActFragment == <<"a">>
ActRemove == <<":", "r", "e", "m", "o", "v", "e", "(", ")">>
ActStyle == <<":", "s", "t", "y", "l", "e", "(", "a", ":", "b", ")">>
ActOthers == {<<":", "h", "a", "s", "(", "a", ")">>,
              <<":", "u", "p", "w", "a", "r", "d", "(", "1", ")">>}
ActNested == {<<":", "h", "a", "s", "(", "a", ":", "r", "e", "m", "o", "v", "e", "(", ")", ")">>,
              <<":", "n", "o", "t", "(", "a", ":", "s", "t", "y", "l", "e", "(", "a", ":", "b", ")", ")">>,
              <<":", "i", "f", "(", "a", ":", "r", "e", "m", "o", "v", "e", "(", ")", ")">>,
              <<":", "i", "f", "-", "n", "o", "t", "(", "a", ":", "s", "t", "y", "l", "e", "(", "a", ":", "b", ")", ")">>}
ActPieces == {ActFragment, ActRemove, ActStyle} \cup ActOthers \cup ActNested

MaxActPieces == 3     \* most pieces of a selector

ActSeqs == LinesOver(ActPieces, MaxActPieces)
ActLine(q) == <<"#", "#">> \o Flatten(q)
ActLines == {ActLine(q) : q \in ActSeqs}

InitAct ==
    /\ parser \in {Parser(b) : b \in BOOLEAN}
    /\ input \in ActLines
    /\ lines = 1
    /\ calls = 0
    /\ seen = <<>>

NextAct == Analyze

SpecAct == InitAct /\ [][NextAct]_vars

\* The places of the action operators of the root task list of q.
ActionPlaces(q) == {k \in 1..Len(q) : q[k] \in {ActRemove, ActStyle}}

\* The places of the pieces of q that compile() makes tasks of, action
\* operators aside.
TaskPlaces(q) == {k \in 1..Len(q) : q[k] \in ActOthers \cup ActNested}

\* q has an action operator that is not where C27 allows one: in the argument
\* of an operator, followed by anything, or `:style` with another task.
Misplaced(q) ==
    \/ \E k \in 1..Len(q) : q[k] \in ActNested
    \/ \E k \in ActionPlaces(q) : k < Len(q)
    \/ q # <<>> /\ q[Len(q)] = ActStyle /\ TaskPlaces(q) # {}

Rejected(p) ==
    /\ p.category = CATStaticExtFilter
    /\ hasBits(p.flavorBits, BITFlavorUnsupported)
    /\ p.result.compiled = Undefined

\* The pieces a selector of ActLines is made of: no piece starts with another.
RECURSIVE PiecesOf(_)
PiecesOf(s) ==
    IF s = <<>> THEN <<>>
    ELSE LET piece == CHOOSE x \in ActPieces : startsWith(s, x)
         IN  <<piece>> \o PiecesOf(SubSeq(s, Len(piece) + 1, Len(s)))

\* The selector of the line of the caller.
ActSelector == SubSeq(input, 3, Len(input))

\* C27: a selector with an action operator inside the argument of `:has`,
\* `:not`, `:if` or `:if-not`, with anything after an action operator (a
\* second action included), or with `:style` and another task, is rejected:
\* compile() returns undefined and the filter gets the Unsupported flavor.
C27_ActionOnlyLastAtRoot ==
    (Analyzed /\ Misplaced(PiecesOf(ActSelector)))
        => /\ Rejected(parser)
           /\ ~compile(ActSelector, TRUE, [k \in {} |-> <<>>]).ok

\* A selector in which a task follows `:remove()` was analyzed and rejected.
C27_Witness ==
    /\ Analyzed
    /\ Rejected(parser)
    /\ Len(PiecesOf(ActSelector)) = 3
    /\ PiecesOf(ActSelector)[2] = ActRemove
    /\ PiecesOf(ActSelector)[3] \in ActOthers

(***************************************************************************)
(* The caller that loads filters with a list of domains as option value    *)
(***************************************************************************)
\* The entries of the lists: a hostname, a negated one, an entity, a negated
\* entity, a hostname with a wildcard, and a wildcard.
DomEntries == {<<"a">>, <<"~", "a">>, <<"a", ".", "*">>, <<"~", "a", ".", "*">>, <<"a", "*">>, <<"*">>}
DomHeads == {<<"a", "$", "d", "o", "m", "a", "i", "n", "=">>, <<"a", "$", "d", "e", "n", "y", "a", "l", "l", "o", "w", "=">>}
DomTails == {<<>>, <<"|">>}

MaxEntries == 2     \* most entries of a list

RECURSIVE JoinEntries(_)
JoinEntries(q) ==
    IF Len(q) = 1 THEN q[1] ELSE q[1] \o <<"|">> \o JoinEntries(Tail(q))

DomLines ==
    {h \o JoinEntries(q) \o t : h \in DomHeads, t \in DomTails,
                                q \in LinesOver(DomEntries, MaxEntries) \ {<<>>}}

InitDom ==
    /\ parser \in {Parser(b) : b \in BOOLEAN}
    /\ input \in DomLines
    /\ lines = 1
    /\ calls = 0
    /\ seen = <<>>

NextDom ==
    \/ Analyze
    \/ AnalyzeExtra
    \/ NetOptions

SpecDom == InitDom /\ [][NextDom]_vars

\* The slice of p that holds the character at offset c of the line.
SliceOf(p, c) ==
    CHOOSE s \in Slots(p) : OrgAt(p, s) <= c /\ c < OrgAt(p, s) + LenAt(p, s)

ErrorAt(p, c) == hasBits(BitsAt(p, SliceOf(p, c)), BITError)

\* The offsets of the characters of the value of the option of the line.
ValueChars(raw) == (indexOf(raw, "=") + 1)..(Len(raw) - 1)

\* The offsets of the entry of the list that the character at offset c, not a
\* separator, belongs to.
EntryOf(raw, c) ==
    {d \in ValueChars(raw) :
        \A e \in ValueChars(raw) : ((d <= e /\ e <= c) \/ (c <= e /\ e <= d)) => raw[e + 1] # "|"}

EntryText(raw, c) == jsSlice(raw, Min(EntryOf(raw, c)), Max(EntryOf(raw, c)) + 1)

\* The entries that C28 says `domain=` takes: a hostname or an entity, after
\* one `~` or none.
DomainTakes == {<<"a">>, <<"~", "a">>, <<"a", ".", "*">>, <<"~", "a", ".", "*">>}

IsDomainOption(raw) == matchAt(raw, 3, <<"d", "o", "m", "a", "i", "n", "=">>)

\* What C28 says of the line raw in the parser p after the options were
\* prepared.
DomainListMarks(raw, p) ==
    /\ \A c \in ValueChars(raw) :
          raw[c + 1] # "|" =>
             IF IsDomainOption(raw)
             THEN EntryText(raw, c) \in DomainTakes => ~ErrorAt(p, c)
             ELSE (\/ Head(EntryText(raw, c)) = "~"
                   \/ endsWith(EntryText(raw, c), <<"*">>)) => ErrorAt(p, c)
    /\ raw[Len(raw)] = "|" => ErrorAt(p, Len(raw) - 1)

\* C28: in an interactive parser, after analyzeExtra() and after netOptions(),
\* no slice of an entry of `domain=` that is a hostname or an entity, negated
\* with one `~` or not, carries ERROR; every slice of an entry of `denyallow=`
\* that starts with `~` or ends with `*` carries ERROR; the `|` that ends
\* the value of either carries ERROR.
C28_DomainLists ==
    (Analyzed /\ parser.interactive)
        => /\ DomainListMarks(input, analyzeExtra(parser))
           /\ DomainListMarks(input, netOptionsInit(parser))

\* The list `~a|a.*|` of a `denyallow=` was analyzed by an interactive parser
\* and its options prepared: slices carry ERROR.
C28_Witness ==
    /\ Analyzed
    /\ parser.interactive
    /\ ~IsDomainOption(input)
    /\ input[Len(input)] = "|"
    /\ ErrorAt(parser, Len(input) - 1)
    /\ \E c \in ValueChars(input) : input[c + 1] = "~" /\ ErrorAt(parser, c)

(***************************************************************************)
(* The caller that loads cosmetic filters with an integer argument         *)
(***************************************************************************)
IntDigits == {"0", "1", "2", "5", "6"}

MaxDigits == 3     \* most digits of a short argument

\* 2^31 - 2, 2^31 - 1 and 2^31
BigArgs == {<<"2", "1", "4", "7", "4", "8", "3", "6", "4", "6">>,
            <<"2", "1", "4", "7", "4", "8", "3", "6", "4", "7">>,
            <<"2", "1", "4", "7", "4", "8", "3", "6", "4", "8">>}
IntArgs == (LinesOver(IntDigits, MaxDigits) \ {<<>>}) \cup BigArgs

IntHeads == {<<"#", "#", "a", ":", "m", "i", "n", "-", "t", "e", "x", "t", "-", "l", "e", "n", "g", "t", "h", "(">>,
             <<"#", "#", "a", ":", "u", "p", "w", "a", "r", "d", "(">>}

IntLines == {h \o n \o <<")">> : h \in IntHeads, n \in IntArgs}

InitInt ==
    /\ parser \in {Parser(b) : b \in BOOLEAN}
    /\ input \in IntLines
    /\ lines = 1
    /\ calls = 0
    /\ seen = <<>>

NextInt == Analyze

SpecInt == InitInt /\ [][NextInt]_vars

\* The argument of the operator of the line, and its value when it is short.
IntArg == jsSlice(input, indexOf(input, "(") + 1, Len(input) - 1)

RECURSIVE ValueOf(_)
ValueOf(s) ==
    IF s = <<>> THEN 0 ELSE 10 * ValueOf(SubSeq(s, 1, Len(s) - 1)) + DigitValue(s[Len(s)])

IsUpward == matchAt(input, 4, <<":", "u", "p", "w", "a", "r", "d", "(">>)

\* C29: `:min-text-length(n)` is accepted iff 0 <= n < 2^31, 2147483647
\* included and 2147483648 not; `:upward(n)` is accepted iff 1 <= n < 256.
C29_IntegerRanges ==
    Analyzed =>
        (~Rejected(parser) <=>
            IF IsUpward
            THEN IntArg \notin BigArgs /\ 1 <= ValueOf(IntArg) /\ ValueOf(IntArg) < 256
            ELSE IntArg # <<"2", "1", "4", "7", "4", "8", "3", "6", "4", "8">>)

(***************************************************************************)
(* The caller that loads cosmetic filters with a list of attribute names   *)
(***************************************************************************)
AttrAlphabet == {"a", "b", ","}

MaxAttrLen == 4     \* longest argument of :watch-attr()

AttrHead == <<"#", "#", "a", ":", "w", "a", "t", "c", "h", "-", "a", "t", "t", "r", "(">>

AttrLines == {AttrHead \o a \o <<")">> : a \in LinesOver(AttrAlphabet, MaxAttrLen) \ {<<>>}}

InitAttr ==
    /\ parser \in {Parser(b) : b \in BOOLEAN}
    /\ input \in AttrLines
    /\ lines = 1
    /\ calls = 0
    /\ seen = <<>>

NextAttr == Analyze

SpecAttr == InitAttr /\ [][NextAttr]_vars

\* The argument of :watch-attr() of the line.
AttrArg == jsSlice(input, Len(AttrHead), Len(input) - 1)

\* The names between the commas of s that are not empty.
NamesOf(s) == nonEmpty(split(s, <<",">>, <<>>))

\* The selector of the line with the task :watch-attr of the names of `items`,
\* as analyze() leaves it in result.compiled.
WatchAttr(items) ==
    Str(jsonCompiled(compileRaw(Done(Compiled(<<"a">>,
                                              <<[op |-> OpWatchAttr,
                                                 arg |-> ListArg(items)]>>,
                                              <<>>, -1),
                                     EmptyMap)).v))

\* C30: the argument of :watch-attr() compiles to the list of the names
\* between its commas that are not empty (`a,b` gives the two names a and b).
C30_AttrList ==
    Analyzed =>
        /\ compileAttrList(AttrArg, EmptyMap).v.items = NamesOf(AttrArg)
        /\ parser.result.compiled = WatchAttr(NamesOf(AttrArg))

====
